---------------------------- MODULE Spec2Model ----------------------------
(***************************************************************************)
(* Model of the tile streaming engine of mesh3d: the AsyncLoader (one      *)
(* worker thread, a request queue, a pending set and a result queue), the  *)
(* TileCache (LRU list + map) and the part of the TileManager that feeds    *)
(* the loader with provider pointers.                                      *)
(*                                                                         *)
(* Threads are modelled by program counters.  Every critical section of    *)
(* the loader (a lock_guard / unique_lock scope) is one atomic step; the   *)
(* steps of a thread are separated exactly where the code holds no mutex,  *)
(* and where the worker sits between evaluating the wait predicate and     *)
(* blocking on the condition variable.                                     *)
(***************************************************************************)
EXTENDS Integers, Sequences, FiniteSets, TLC

(***************************************************************************)
(* Bounds of the model.                                                    *)
(***************************************************************************)
\* number of distinct tile coordinates
NumCoords == 2
\* number of requests the main thread may enqueue in one behaviour
MaxRequests == 2
\* largest capacity (max_tiles) a TileCache is constructed with
MaxCapacity == 2
\* number of provider objects the manager may be handed in one behaviour
MaxProviders == 2
\* number of GL objects the context may hold at a time
MaxGlObjects == 8
\* largest number of nodes handed to one compute of the GPU engine
MaxNodes == 2
\* largest number of row-bands (of ROWS_PER_CHUNK rows) of a grid
MaxBands == 2
\* number of kick_viewshed_gpu calls in one behaviour
MaxKicks == 2
\* rows and columns of the elevation grid of a tile in a composite
CompTileRows == 2
CompTileCols == 3
\* latitude and longitude span of the center tile of a composite
LatSpan == 10
LonSpan == 20
\* the zoom of a slippy-map center tile
SlippyZoom == 12
\* the value of a uniform composite result
Uniform == 7
\* the length of the file a DiskCache::write writes, in flushes
FileLen == 4
\* highest texture name of the GL context
MaxTexNames == 13
\* textures of other owners in the GL context
MaxOtherTextures == 1
\* largest number of nodes visible at one pixel that one merge is given
MaxVisibleNodes == 256

Coords == 1..NumCoords
\* the key space of the cache is one larger than the largest capacity, so
\* that "more than capacity distinct keys" happens for every capacity
CacheKeys == 1..(MaxCapacity + 1)

\* a null TileProvider* (async_loader.cpp, "if (!req.provider)")
NullProvider == 0
\* TileCache::DEFAULT_MAX_TILES
DEFAULT_MAX_TILES == 128

VARIABLES
    \* ---- AsyncLoader members
    m_running,        \* std::atomic<bool>
    m_requests,       \* std::deque<Request>: records [coord, provider, rid]
    m_pending_set,    \* std::unordered_set<TileCoord>
    m_results,        \* std::deque<TileData>: records [coord, rid]
    req_mutex,        \* holder of m_req_mutex: "free" or "worker"
    result_mutex,     \* holder of m_result_mutex: "free" or "worker"
    \* ---- the worker thread
    w_pc,             \* position of the worker in worker_loop
    w_req,            \* its local Request req (NoRequest outside an iteration)
    w_result,         \* its local std::optional<TileData> result
    \* ---- the main thread
    main_pc,          \* "idle", or the position inside poll_result / stop
    out,              \* the TileData& out of poll_result
    \* ---- history of the loader (not program state)
    n_issued,         \* requests enqueued so far; the next one gets rid n_issued+1
    dropped,          \* rids of the requests removed from the queue by clear_pending
    pushed,           \* rids in the order the worker pushed them to m_results
    polled,           \* rids in the order poll_result handed them out
    epoch_rid,        \* per coord: n_issued when the main thread last removed the
                      \* coord from the pending set (poll_result, clear_pending)
    fetch_calls,      \* per coord: fetch_tile calls for requests enqueued since then
    worker_erased,    \* per coord: times the worker erased the pending entry since then
    req_ignored,      \* TRUE once a request() found its coord pending and returned
    survived,         \* rids that were with the worker when clear_pending ran
    w_outcome,        \* what the worker's last fetch_tile call did ("none" outside)
    \* ---- TileCache members
    m_max_tiles,      \* int m_max_tiles
    m_lru,            \* std::list<TileCoord>: sequence of nodes [node, coord], front first
    m_map,            \* std::unordered_map: set of entries [coord, lru_it]
    overlay_tex,      \* coords of the cached tiles whose overlay_vis_tex and
                      \* overlay_sig_tex are not 0
    gl_live,          \* GL objects generated and not deleted: one per Mesh (with
                      \* its Texture), two per pair of overlay textures
    \* ---- history of the cache (not program state)
    recent,           \* coords in the order of their last touch, latest first
    uploaded_keys,    \* the distinct coords uploaded, in the order of their first upload
    removed_by_call,  \* TRUE once evict() or clear() removed an entry
    \* ---- TileManager members
    m_hgt_provider,   \* std::unique_ptr<HgtProvider>: a provider id or NullProvider
    m_elev_provider,  \* std::unique_ptr<TileProvider>
    alive,            \* provider objects that have not been destroyed
    n_providers,      \* provider objects created so far
    mgr_pc,           \* position of the main thread inside a TileManager call
    mgr_needed,       \* the local `needed` of update_dynamic_tiles
    mgr_todo,         \* coords the loop of the update has still to visit
    all_loaded,       \* the local `all_loaded` of ensure_elevation_tiles
    m_visible_elev,   \* std::vector<TileCoord> m_visible_elev, as a set
    m_elev_loaded,    \* bool m_elev_loaded
    \* ---- GpuViewshed members
    m_initialized,    \* bool m_initialized
    m_has_itm,        \* bool m_has_itm: itm.comp was loaded
    m_has_fresnel,    \* bool m_has_fresnel: fresnel.comp was loaded
    m_prop_model,     \* mesh3d_prop_model_t m_prop_model
    m_rows,           \* int m_rows (m_cols is set with it and never 0 alone)
    m_state,          \* ComputeState m_state
    m_fence,          \* GLsync m_fence: TRUE when it is not nullptr
    m_chunk,          \* ChunkState m_chunk; nodes is the size of the vector
    \* ---- the GL context, as far as the engine's fences go
    gl_syncs,         \* sync objects created and not deleted
    gl_fence_queued,  \* TRUE while a fence sits in the command queue unflushed
    gl_merged,        \* the node results folded into the three merge textures
                      \* since they were last cleared
    \* ---- history of the engine (not program state)
    polls,            \* polls that found the fence signalled since the last
                      \* compute_all_async that dispatched
    kick_nodes,       \* the number of nodes of that compute_all_async
    grid_changed,     \* TRUE once upload_elevation has resized the grid since then
    refused_keep,     \* the selection in force when the last set_propagation_model
                      \* call was refused ("none" when it was accepted)
    early_readback,   \* TRUE while the fence left by a read_back_async made in
                      \* state DISPATCHED is still there
    rekicked,         \* TRUE when the last compute_all_async that dispatched
                      \* found the engine DISPATCHED
    last_shader,      \* the shader the last compute dispatched ("none" before)
    dispatch_log,     \* the dispatches of the last compute_all_async, in order:
                      \* [kind, node, row_start, row_end]; kept for as long as
                      \* the grid is the one the compute began on
    \* ---- TileManager: the per-tile viewshed orchestrator (m_tile_vs)
    tvs_tile_list,    \* m_tile_vs.tile_list: the coords to compute, in order
    tvs_current_tile, \* m_tile_vs.current_tile (an index from 0)
    tvs_active,       \* m_tile_vs.active
    tile_overlay,     \* per coord: what the tile's viewshed / signal arrays and
                      \* overlay textures hold: NoOverlay or [tile, nbrs, nodes]
    gpu_job,          \* what the engine's elevation texture is of: [tile, nbrs]
                      \* of the last dispatch
    \* ---- history of the orchestrator (not program state)
    kicks,            \* kick_viewshed_gpu calls so far
    vs_nodes,         \* the number of nodes of the last kick_viewshed_gpu
    rekick_mid,       \* TRUE once a kick found the orchestrator active
    \* ---- the CPU viewshed merge, at one pixel i
    merge_loop,       \* the loop that runs: "scene" (recompute_all_viewsheds)
                      \* or "tile" (TileManager::apply_viewshed_overlays)
    viewshed_vis,     \* scene.viewshed_vis[i], std::vector<uint8_t>
    signal_strength,  \* scene.signal_strength[i], std::vector<float>
    overlap_count,    \* scene.overlap_count[i], std::vector<uint8_t>
    tr_viewshed,      \* tr.viewshed[i], std::vector<uint8_t>
    tr_signal,        \* tr.signal[i], std::vector<float>
    \* ---- history of the merge (not program state)
    visible_nodes,    \* nodes merged so far whose vis[i] was set
    node_sig_max,     \* the greatest sig[i] of the nodes merged so far
    node_vis_max,     \* the greatest vis[i] of the nodes merged so far
    \* ---- the camera and HgtProvider::tiles_in_view
    cam_lat,          \* the camera's latitude, in hundredths of a degree
    cam_lon,          \* the camera's longitude, in hundredths of a degree
    view_needed,      \* needed of update_dynamic_tiles: the tiles_in_view result
    \* ---- TileCache::upload followed statement by statement
    up_pc,            \* "idle", or "while": at the test of the eviction loop
    up_coord,         \* the coord of the tile being uploaded (0 outside a call)
    \* ---- the textures of a GpuViewshed
    tex_alive,        \* the GpuViewshed object exists (its destructor has not run)
    tex_rows,         \* m_rows, as create_textures and destroy_textures leave it
    m_tex,            \* the six GLuint texture members, by name: 0 or a GL name
    gl_tex_names,     \* the texture names of the GL context that are in use
    tex_others,       \* the names the other texture owners of the program hold
    tex_high,         \* the highest name glGenTextures has returned
    \* ---- history of the textures (not program state)
    tex_owned,        \* the names the engine generated and has not deleted
    tex_deleted_again, \* names the engine deleted without owning them
    \* ---- TileManager: the imagery source and the parts of the cached tiles
    m_imagery_source,   \* ImagerySource
    m_imagery_provider, \* what m_imagery_provider points to ("null": nothing)
    img_tiles,          \* coord -> TileRenderable, for the cached tiles
    \* ---- history of the imagery (not program state)
    img_stripped,       \* the tiles whose texture the last call reset
    \* ---- the composite elevation of one center tile
    comp_z,           \* center.coord.z
    comp_cache,       \* <<dx, dy>> -> what the cache holds at that neighbour
    comp_ce,          \* the CompositeElevation last built
    comp_result,      \* the composite-shaped result handed to the extraction
    comp_tile,        \* the tile-shaped output of the extraction
    \* ---- DSMProvider: one coordinate computation
    dsm_lat,          \* the latitude asked for, in 1/10000 degree
    dsm_lon,          \* the longitude asked for, in 1/10000 degree
    dsm_coord,        \* what latlon_to_dsm_coord returned
    dsm_bounds,       \* dsm_tile_bounds of it, in 1/10000 degree
    \* ---- DiskCache: the file of one key, a writing and a reading thread
    disk_file,        \* [exists, len]: the file at key_to_path(key)
    dw_pc,            \* the writer: "idle", "open" (the ofstream is open)
    dr_pc,            \* the reader: "idle", "has", "sized"
    dr_size,          \* the size tellg gave the reader
    dr_data           \* [done, len, read]: what the last read returned

loaderVars == <<m_running, m_requests, m_pending_set, m_results, req_mutex,
                result_mutex, w_pc, w_req, w_result, main_pc, out>>
loaderHist == <<n_issued, dropped, pushed, polled, epoch_rid, fetch_calls,
                worker_erased, req_ignored, survived, w_outcome>>
cacheVars == <<m_max_tiles, m_lru, m_map, overlay_tex, gl_live>>
cacheHist == <<recent, uploaded_keys, removed_by_call>>
mgrVars == <<m_hgt_provider, m_elev_provider, alive, n_providers, mgr_pc,
             mgr_needed, mgr_todo, all_loaded, m_visible_elev, m_elev_loaded>>
engVars == <<m_initialized, m_has_itm, m_has_fresnel, m_prop_model, m_rows,
             m_state, m_fence, m_chunk, gl_syncs, gl_fence_queued, gl_merged>>
engHist == <<polls, kick_nodes, grid_changed, refused_keep, early_readback,
             rekicked, last_shader, dispatch_log>>
tvsVars == <<tvs_tile_list, tvs_current_tile, tvs_active, tile_overlay, gpu_job,
             kicks, vs_nodes, rekick_mid>>
gpuVars == <<engVars, engHist, tvsVars>>
mergeVars == <<merge_loop, viewshed_vis, signal_strength, overlap_count,
               tr_viewshed, tr_signal, visible_nodes, node_sig_max, node_vis_max>>
viewVars == <<cam_lat, cam_lon, view_needed>>
uploadVars == <<up_pc, up_coord>>
texVars == <<tex_alive, tex_rows, m_tex, gl_tex_names, tex_others, tex_high,
             tex_owned, tex_deleted_again>>
imgVars == <<m_imagery_source, m_imagery_provider, img_tiles, img_stripped>>
compVars == <<comp_z, comp_cache, comp_ce, comp_result, comp_tile>>
dsmVars == <<dsm_lat, dsm_lon, dsm_coord, dsm_bounds>>
diskVars == <<disk_file, dw_pc, dr_pc, dr_size, dr_data>>
moreVars == <<uploadVars, texVars, imgVars, compVars, dsmVars, diskVars>>
sceneVars == <<mergeVars, viewVars, moreVars>>
\* everything but the cache and the upload that is under way
exceptUpload == <<loaderVars, loaderHist, mgrVars, gpuVars, mergeVars, viewVars,
                  texVars, imgVars, compVars, dsmVars, diskVars>>
\* everything but the textures of the engine
exceptTex == <<loaderVars, loaderHist, cacheVars, cacheHist, mgrVars, gpuVars,
               mergeVars, viewVars, uploadVars, imgVars, compVars, dsmVars,
               diskVars>>
\* everything but the imagery of the tile manager
exceptImg == <<loaderVars, loaderHist, cacheVars, cacheHist, mgrVars, gpuVars,
               mergeVars, viewVars, uploadVars, texVars, compVars, dsmVars,
               diskVars>>
\* everything but the composite elevation
exceptComp == <<loaderVars, loaderHist, cacheVars, cacheHist, mgrVars, gpuVars,
                mergeVars, viewVars, uploadVars, texVars, imgVars, dsmVars,
                diskVars>>
\* everything but the DSM coordinate
exceptDsm == <<loaderVars, loaderHist, cacheVars, cacheHist, mgrVars, gpuVars,
               mergeVars, viewVars, uploadVars, texVars, imgVars, compVars,
               diskVars>>
\* everything but the disk cache
exceptDisk == <<loaderVars, loaderHist, cacheVars, cacheHist, mgrVars, gpuVars,
                mergeVars, viewVars, uploadVars, texVars, imgVars, compVars,
                dsmVars>>
vars == <<loaderVars, loaderHist, cacheVars, cacheHist, mgrVars, gpuVars, sceneVars>>

\* a default-constructed Request / an empty std::optional<TileData>
NoRequest == [coord |-> 0, provider |-> NullProvider, rid |-> 0]
NoTileData == [coord |-> 0, rid |-> 0]

RECURSIVE SeqToSet(_)
SeqToSet(s) == IF s = <<>> THEN {} ELSE {Head(s)} \cup SeqToSet(Tail(s))

(***************************************************************************)
(* AsyncLoader                                                             *)
(***************************************************************************)

\* m_req_cv.notify_one() / notify_all(): a worker blocked in wait() is made
\* runnable; it must reacquire the mutex and evaluate the predicate again.
\* A notification with no thread blocked in wait() is lost.
Notified(pc) == IF pc = "cv_blocked" THEN "lock" ELSE pc

\* the history counters: at most MaxRequests requests are ever enqueued
Bump(f, c) == [f EXCEPT ![c] = f[c] + 1]
Reset(f, c) == [f EXCEPT ![c] = 0]

\* a step of the loader leaves the cache and the manager alone
restUnchangedByLoader == UNCHANGED <<cacheVars, cacheHist, mgrVars, gpuVars, sceneVars>>

\* AsyncLoader::start: no-op when running, else set the flag and launch the thread
Start ==
    /\ restUnchangedByLoader
    /\ main_pc = "idle"
    /\ ~m_running
    /\ m_running' = TRUE
    /\ w_pc' = "loop"
    /\ UNCHANGED <<m_requests, m_pending_set, m_results, req_mutex, result_mutex,
                   w_req, w_result, main_pc, out, loaderHist>>

\* AsyncLoader::stop on a running loader, up to m_running.store(false); no
\* mutex is held (on a loader that is not running stop() returns at once)
stop_store ==
    /\ main_pc = "idle"
    /\ m_running
    /\ m_running' = FALSE
    /\ main_pc' = "stop_notify"
    /\ UNCHANGED <<m_requests, m_pending_set, m_results, req_mutex, result_mutex,
                   w_pc, w_req, w_result, out, loaderHist>>

StopStore ==
    /\ restUnchangedByLoader
    /\ stop_store

\* AsyncLoader::stop, m_req_cv.notify_all(), no mutex held
StopNotify ==
    /\ restUnchangedByLoader
    /\ main_pc = "stop_notify"
    /\ w_pc' = Notified(w_pc)
    /\ main_pc' = "stop_join"
    /\ UNCHANGED <<m_running, m_requests, m_pending_set, m_results, req_mutex,
                   result_mutex, w_req, w_result, out, loaderHist>>

\* AsyncLoader::stop, m_thread.join(): returns once the worker has left worker_loop
StopJoin ==
    /\ restUnchangedByLoader
    /\ main_pc = "stop_join"
    /\ w_pc = "exited"
    /\ main_pc' = "idle"
    /\ UNCHANGED <<m_running, m_requests, m_pending_set, m_results, req_mutex,
                   result_mutex, w_pc, w_req, w_result, out, loaderHist>>

\* a variant of request without the test of the pending set
AlreadyPendingNever(c) == FALSE

\* "if (m_pending_set.count(coord)) return;"
AlreadyPending(c) == c \in m_pending_set

\* the body of AsyncLoader::request under its lock_guard
request(c, p) ==
    /\ req_mutex = "free"
    /\ IF AlreadyPending(c)
       THEN /\ req_ignored' = TRUE
            /\ UNCHANGED <<m_pending_set, m_requests, w_pc, n_issued>>
       ELSE /\ n_issued < MaxRequests
            /\ m_pending_set' = m_pending_set \cup {c}
            /\ m_requests' = Append(m_requests,
                                    [coord |-> c, provider |-> p, rid |-> n_issued + 1])
            /\ w_pc' = Notified(w_pc)
            /\ n_issued' = n_issued + 1
            /\ UNCHANGED req_ignored
    /\ UNCHANGED <<m_running, m_results, req_mutex, result_mutex, w_req, w_result,
                   dropped, pushed, polled, fetch_calls, worker_erased, epoch_rid, survived,
                   w_outcome>>

\* AsyncLoader::request called from the main thread
Request(c, p) ==
    /\ restUnchangedByLoader
    /\ main_pc = "idle"
    /\ request(c, p)
    /\ UNCHANGED <<main_pc, out>>

\* AsyncLoader::is_pending
is_pending(c) == c \in m_pending_set

\* AsyncLoader::is_pending called from the main thread: takes m_req_mutex, reads
IsPending(c) ==
    /\ restUnchangedByLoader
    /\ main_pc = "idle"
    /\ req_mutex = "free"
    /\ is_pending(c) \in BOOLEAN
    /\ UNCHANGED <<loaderVars, loaderHist>>

\* AsyncLoader::poll_result, first scope (m_result_mutex): pop the front result.
\* With no result the call returns false and changes nothing.
poll_pop ==
    /\ result_mutex = "free"
    /\ m_results # <<>>
    /\ out' = Head(m_results)
    /\ m_results' = Tail(m_results)
    /\ polled' = Append(polled, Head(m_results).rid)
    /\ UNCHANGED <<m_running, m_requests, m_pending_set, req_mutex, result_mutex,
                   w_pc, w_req, w_result, n_issued, dropped, pushed, fetch_calls,
                   worker_erased, epoch_rid, req_ignored, survived, w_outcome>>

\* AsyncLoader::poll_result, second scope (m_req_mutex): m_pending_set.erase(out.coord)
poll_erase ==
    /\ req_mutex = "free"
    /\ m_pending_set' = m_pending_set \ {out.coord}
    /\ fetch_calls' = Reset(fetch_calls, out.coord)
    /\ worker_erased' = Reset(worker_erased, out.coord)
    /\ epoch_rid' = [epoch_rid EXCEPT ![out.coord] = n_issued]
    /\ UNCHANGED <<m_running, m_requests, m_results, req_mutex, result_mutex,
                   w_pc, w_req, w_result, out, n_issued, dropped, pushed, polled,
                   req_ignored, survived, w_outcome>>

PollPop ==
    /\ restUnchangedByLoader
    /\ main_pc = "idle"
    /\ poll_pop
    /\ main_pc' = "poll_erase"

PollErase ==
    /\ restUnchangedByLoader
    /\ main_pc = "poll_erase"
    /\ poll_erase
    /\ main_pc' = "idle"

\* the positions at which the worker holds a dequeued request
InFlightPcs == {"check_provider", "fetch", "fetched"}

\* a variant of clear_pending that clears the pending set and keeps the queue
ClearedQueueKept(q) == q

\* m_requests.clear()
ClearedQueue(q) == <<>>

\* AsyncLoader::clear_pending
ClearPending ==
    /\ restUnchangedByLoader
    /\ main_pc = "idle"
    /\ req_mutex = "free"
    /\ m_requests' = ClearedQueue(m_requests)
    /\ m_pending_set' = {}
    /\ dropped' = dropped \cup {m_requests[i].rid : i \in DOMAIN m_requests}
    /\ survived' = IF w_pc \in InFlightPcs THEN survived \cup {w_req.rid} ELSE survived
    /\ fetch_calls' = [c \in Coords |-> 0]
    /\ worker_erased' = [c \in Coords |-> 0]
    /\ epoch_rid' = [c \in Coords |-> n_issued]
    /\ UNCHANGED <<m_running, m_results, req_mutex, result_mutex, w_pc, w_req,
                   w_result, main_pc, out, n_issued, pushed, polled, req_ignored,
                   w_outcome>>

\* what provider->fetch_tile(req.coord) can do: return a TileData, return
\* nullopt, throw a std::exception, throw anything else
FetchOutcomes == {"data", "nullopt", "std_exception", "other_exception"}

\* the value of `result` after the try/catch around fetch_tile: the providers
\* return a TileData carrying the requested coord; both catch clauses only log
FetchResult(outcome, req) ==
    IF outcome = "data" THEN [coord |-> req.coord, rid |-> req.rid] ELSE NoTileData

\* a call through a pointer to a destroyed provider is undefined: it may do
\* any of the above, or take the process down
CallOutcomes(provider) ==
    IF provider \in alive THEN FetchOutcomes ELSE FetchOutcomes \cup {"undefined"}

\* a variant of the worker without the catch (...) clause
CaughtStdOnly(outcome) == outcome \in {"data", "nullopt", "std_exception"}

\* whether worker_loop goes on after the call: a return does, and catch (const
\* std::exception&) and catch (...) take every throw
Caught(outcome) == outcome \in FetchOutcomes

\* a variant of the worker that erases the pending entry after every fetch
WorkerErasesPendingAlways(result) == TRUE

\* "if (result) ... else m_pending_set.erase(req.coord)": the worker erases the
\* pending entry only for a failed fetch
WorkerErasesPending(result) == result = NoTileData

\* a variant of the worker whose unique_lock scope extends over the fetch
MutexKeptAfterDequeue == "worker"

\* holder of m_req_mutex once the scope of the unique_lock has been left
MutexAfterDequeue == "free"

\* a variant of the worker that delivers with push_front
PushFront(q, r) == <<r>> \o q

\* m_results.push_back(std::move(*result))
PushBack(q, r) == Append(q, r)

\* the worker's "while (m_running.load())"
WorkerLoopTest ==
    /\ restUnchangedByLoader
    /\ w_pc = "loop"
    /\ w_pc' = IF m_running THEN "lock" ELSE "exited"
    /\ UNCHANGED <<m_running, m_requests, m_pending_set, m_results, req_mutex,
                   result_mutex, w_req, w_result, main_pc, out, loaderHist>>

\* The worker takes m_req_mutex (on entry to the scope, or when it returns from
\* the condition variable) and evaluates the wait predicate.  If it is false
\* the worker still holds the mutex and is about to block.  If it is true it
\* goes on, still under the mutex: break, continue, or pop the front request.
WorkerWaitTest ==
    /\ restUnchangedByLoader
    /\ w_pc = "lock"
    /\ req_mutex = "free"
    /\ IF ~(m_requests # <<>> \/ ~m_running)
       THEN /\ w_pc' = "pred_false"
            /\ req_mutex' = "worker"
            /\ UNCHANGED <<m_requests, w_req>>
       ELSE IF ~m_running /\ m_requests = <<>>
       THEN /\ w_pc' = "exited"
            /\ UNCHANGED <<m_requests, w_req, req_mutex>>
       ELSE IF m_requests = <<>>
       THEN /\ w_pc' = "loop"
            /\ UNCHANGED <<m_requests, w_req, req_mutex>>
       ELSE /\ w_req' = Head(m_requests)
            /\ m_requests' = Tail(m_requests)
            /\ w_pc' = "check_provider"
            /\ req_mutex' = MutexAfterDequeue
    /\ UNCHANGED <<m_running, m_pending_set, m_results, result_mutex, w_result,
                   main_pc, out, loaderHist>>

\* condition_variable::wait(lock): release the mutex and block, atomically
WorkerBlock ==
    /\ restUnchangedByLoader
    /\ w_pc = "pred_false"
    /\ w_pc' = "cv_blocked"
    /\ req_mutex' = "free"
    /\ UNCHANGED <<m_running, m_requests, m_pending_set, m_results, result_mutex,
                   w_req, w_result, main_pc, out, loaderHist>>

\* a spurious wakeup, which condition_variable::wait permits
WorkerSpuriousWakeup ==
    /\ restUnchangedByLoader
    /\ w_pc = "cv_blocked"
    /\ w_pc' = "lock"
    /\ UNCHANGED <<m_running, m_requests, m_pending_set, m_results, req_mutex,
                   result_mutex, w_req, w_result, main_pc, out, loaderHist>>

\* "if (!req.provider)": erase the coord under m_req_mutex and continue;
\* otherwise call fetch_tile
WorkerCheckProvider ==
    /\ restUnchangedByLoader
    /\ w_pc = "check_provider"
    /\ IF w_req.provider = NullProvider
       THEN /\ req_mutex = "free"
            /\ m_pending_set' = m_pending_set \ {w_req.coord}
            /\ w_pc' = "loop"
            /\ w_req' = NoRequest
            /\ worker_erased' = IF w_req.coord \in m_pending_set
                                THEN Bump(worker_erased, w_req.coord)
                                ELSE worker_erased
            /\ UNCHANGED fetch_calls
       ELSE /\ w_pc' = "fetch"
            /\ fetch_calls' = IF w_req.rid > epoch_rid[w_req.coord]
                              THEN Bump(fetch_calls, w_req.coord)
                              ELSE fetch_calls
            /\ UNCHANGED <<m_pending_set, w_req, worker_erased>>
    /\ UNCHANGED <<m_running, m_requests, m_results, req_mutex, result_mutex,
                   w_result, main_pc, out, n_issued, dropped, pushed, polled,
                   epoch_rid, req_ignored, survived, w_outcome>>

\* fetch_tile returns or throws; no mutex of the loader is involved
WorkerFetchReturns ==
    /\ restUnchangedByLoader
    /\ w_pc = "fetch"
    /\ \E outcome \in CallOutcomes(w_req.provider) :
          /\ w_outcome' = outcome
          /\ w_result' = FetchResult(outcome, w_req)
          /\ w_pc' = IF Caught(outcome) THEN "fetched" ELSE "terminated"
    /\ UNCHANGED <<m_running, m_requests, m_pending_set, m_results, req_mutex,
                   result_mutex, w_req, main_pc, out, n_issued, dropped, pushed,
                   polled, epoch_rid, fetch_calls, worker_erased, req_ignored,
                   survived>>

\* "if (result)": push the result under m_result_mutex (the pending entry
\* stays); else erase the coord from the pending set under m_req_mutex
WorkerDeliver ==
    /\ restUnchangedByLoader
    /\ w_pc = "fetched"
    /\ IF w_result # NoTileData
       THEN /\ result_mutex = "free"
            /\ m_results' = PushBack(m_results, w_result)
            /\ pushed' = Append(pushed, w_result.rid)
       ELSE /\ req_mutex = "free"
            /\ UNCHANGED <<m_results, pushed>>
    /\ m_pending_set' = IF WorkerErasesPending(w_result)
                        THEN m_pending_set \ {w_req.coord}
                        ELSE m_pending_set
    /\ worker_erased' = IF w_req.coord \in m_pending_set \ m_pending_set'
                        THEN Bump(worker_erased, w_req.coord)
                        ELSE worker_erased
    /\ w_pc' = "loop"
    /\ w_req' = NoRequest
    /\ w_result' = NoTileData
    /\ w_outcome' = "none"
    /\ UNCHANGED <<m_running, m_requests, req_mutex, result_mutex,
                   main_pc, out, n_issued, dropped, polled, epoch_rid, fetch_calls,
                   req_ignored, survived>>

\* the steps the worker takes on its own
Worker ==
    \/ WorkerLoopTest
    \/ WorkerWaitTest
    \/ WorkerBlock
    \/ WorkerCheckProvider
    \/ WorkerFetchReturns
    \/ WorkerDeliver

\* the state after construction of an AsyncLoader
LoaderInitState ==
    /\ m_running = FALSE
    /\ m_requests = <<>>
    /\ m_pending_set = {}
    /\ m_results = <<>>
    /\ req_mutex = "free"
    /\ result_mutex = "free"
    /\ w_pc = "exited"
    /\ w_req = NoRequest
    /\ w_result = NoTileData
    /\ main_pc = "idle"
    /\ out = NoTileData
    /\ n_issued = 0
    /\ dropped = {}
    /\ pushed = <<>>
    /\ polled = <<>>
    /\ fetch_calls = [c \in Coords |-> 0]
    /\ worker_erased = [c \in Coords |-> 0]
    /\ epoch_rid = [c \in Coords |-> 0]
    /\ req_ignored = FALSE
    /\ survived = {}
    /\ w_outcome = "none"

(***************************************************************************)
(* TileCache                                                               *)
(***************************************************************************)

\* a std::list node is identified by a number; a new node takes the least
\* number no node of the list carries
FreshNode(lru) ==
    CHOOSE n \in 1..(Len(lru) + 1) :
        /\ \A i \in DOMAIN lru : lru[i].node # n
        /\ \A k \in 1..(n - 1) : \E i \in DOMAIN lru : lru[i].node = k

\* m_lru.erase(it)
LruErase(lru, it) == SelectSeq(lru, LAMBDA n : n.node # it)

\* m_lru.push_front(coord)
LruPushFront(lru, c) == <<[node |-> FreshNode(lru), coord |-> c]>> \o lru

\* the keys of a map, and the list iterator stored with a key
Keys(map) == {e.coord : e \in map}
ItOf(map, c) == (CHOOSE e \in map : e.coord = c).lru_it

\* m_map.erase(coord) and the assignment / emplace of an entry
MapErase(map, c) == {e \in map : e.coord # c}
MapPut(map, c, it) == MapErase(map, c) \cup {[coord |-> c, lru_it |-> it]}

Cached == Keys(m_map)

\* TileCache::has
has(c) == c \in Cached

\* a variant of evict_lru that removes m_lru.front()
LruVictimFront(lru) == lru[1]

\* the node evict_lru removes: m_lru.back()
LruVictim(lru) == lru[Len(lru)]

\* TileCache::evict_lru on the cache state cs = [lru, map]
evict_lru(cs) ==
    IF cs.lru = <<>> THEN cs
    ELSE LET oldest == LruVictim(cs.lru)
         IN [lru |-> LruErase(cs.lru, oldest.node),
             map |-> MapErase(cs.map, oldest.coord)]

\* "while (m_map.size() >= m_max_tiles) evict_lru();" for a capacity of at
\* least one entry
RECURSIVE EvictWhileFull(_, _)
EvictWhileFull(cs, max) ==
    IF Cardinality(cs.map) >= max /\ cs.lru # <<>>
    THEN EvictWhileFull(evict_lru(cs), max)
    ELSE cs

\* a variant of the move to the front that leaves the old list node in place
MoveToFrontKeepsNode(cs, c) ==
    LET lru2 == LruPushFront(cs.lru, c)
    IN [lru |-> lru2, map |-> MapPut(cs.map, c, lru2[1].node)]

\* the three statements that move an entry to the front of the LRU list
\* (in upload's replacement branch, in get and in touch)
MoveToFront(cs, c) ==
    LET erased == LruErase(cs.lru, ItOf(cs.map, c))
        lru2 == LruPushFront(erased, c)
    IN [lru |-> lru2, map |-> MapPut(cs.map, c, lru2[1].node)]

\* TileCache::upload on the cache state cs
upload(cs, c, max) ==
    IF c \in Keys(cs.map) THEN MoveToFront(cs, c)
    ELSE LET room == EvictWhileFull(cs, max)
             lru2 == LruPushFront(room.lru, c)
         IN [lru |-> lru2, map |-> MapPut(room.map, c, lru2[1].node)]

\* the order of first uploads
FirstUploads(u, c) == IF c \in SeqToSet(u) THEN u ELSE Append(u, c)

\* the order of last touches, latest first
Touched(r, c) == <<c>> \o SelectSeq(r, LAMBDA k : k # c)

CacheState == [lru |-> m_lru, map |-> m_map]

\* a step of the cache leaves the loader and the manager alone
restUnchangedByCache ==
    UNCHANGED <<loaderVars, loaderHist, mgrVars, gpuVars, sceneVars>>

\* the tile to upload has been built: TileTerrainBuilder::build made its Mesh
Built == gl_live < MaxGlObjects

\* the TileRenderables of the coords in gone are destroyed (or assigned over),
\* after built new tiles were made: ~Mesh and ~Texture (and their move
\* assignments) delete the GL objects they hold; overlay_vis_tex and
\* overlay_sig_tex are plain GLuint members of a struct with no destructor
TilesDestroyed(gone, built) ==
    /\ gl_live' = gl_live + built - Cardinality(gone)
    /\ overlay_tex' = overlay_tex \ gone

\* the tiles an upload of c destroys: the evicted ones, and the tile of c that
\* "it->second.tile = std::move(tile)" assigns over
GoneByUpload(c, map2) == (Cached \ Keys(map2)) \cup (Cached \cap {c})

Upload(c) ==
    /\ restUnchangedByCache
    /\ Built
    /\ LET cs == upload(CacheState, c, m_max_tiles)
       IN /\ m_lru' = cs.lru
          /\ m_map' = cs.map
          /\ TilesDestroyed(GoneByUpload(c, cs.map), 1)
    /\ recent' = Touched(recent, c)
    /\ uploaded_keys' = FirstUploads(uploaded_keys, c)
    /\ UNCHANGED <<m_max_tiles, removed_by_call>>

\* TileCache::get and TileCache::touch: absent, nothing happens
Get(c) ==
    /\ restUnchangedByCache
    /\ IF has(c)
       THEN /\ LET cs == MoveToFront(CacheState, c)
               IN /\ m_lru' = cs.lru
                  /\ m_map' = cs.map
            /\ recent' = Touched(recent, c)
       ELSE UNCHANGED <<m_lru, m_map, recent>>
    /\ UNCHANGED <<m_max_tiles, overlay_tex, gl_live, uploaded_keys, removed_by_call>>

Touch(c) ==
    /\ restUnchangedByCache
    /\ IF has(c)
       THEN /\ LET cs == MoveToFront(CacheState, c)
               IN /\ m_lru' = cs.lru
                  /\ m_map' = cs.map
            /\ recent' = Touched(recent, c)
       ELSE UNCHANGED <<m_lru, m_map, recent>>
    /\ UNCHANGED <<m_max_tiles, overlay_tex, gl_live, uploaded_keys, removed_by_call>>

\* TileCache::evict
Evict(c) ==
    /\ restUnchangedByCache
    /\ IF has(c)
       THEN /\ m_lru' = LruErase(m_lru, ItOf(m_map, c))
            /\ m_map' = MapErase(m_map, c)
            /\ TilesDestroyed({c}, 0)
            /\ removed_by_call' = TRUE
       ELSE UNCHANGED <<m_lru, m_map, overlay_tex, gl_live, removed_by_call>>
    /\ UNCHANGED <<m_max_tiles, recent, uploaded_keys>>

\* TileCache::clear
Clear ==
    /\ restUnchangedByCache
    /\ m_map' = {}
    /\ m_lru' = <<>>
    /\ TilesDestroyed(Cached, 0)
    /\ removed_by_call' = TRUE
    /\ UNCHANGED <<m_max_tiles, recent, uploaded_keys>>

\* TileRenderable::upload_overlay_textures on the cached tile of c: the two
\* textures are generated unless the tile has them
UploadOverlayTextures(c) ==
    /\ restUnchangedByCache
    /\ has(c)
    /\ IF c \in overlay_tex
       THEN UNCHANGED <<overlay_tex, gl_live>>
       ELSE /\ gl_live + 2 <= MaxGlObjects
            /\ gl_live' = gl_live + 2
            /\ overlay_tex' = overlay_tex \cup {c}
    /\ UNCHANGED <<m_max_tiles, m_lru, m_map, cacheHist>>

\* TileRenderable::destroy_overlay_textures on the cached tile of c
DestroyOverlayTextures(c) ==
    /\ restUnchangedByCache
    /\ has(c)
    /\ IF c \in overlay_tex
       THEN /\ gl_live' = gl_live - 2
            /\ overlay_tex' = overlay_tex \ {c}
       ELSE UNCHANGED <<overlay_tex, gl_live>>
    /\ UNCHANGED <<m_max_tiles, m_lru, m_map, cacheHist>>

\* the state after TileCache(max)
CacheInitState(max) ==
    /\ m_max_tiles = max
    /\ m_lru = <<>>
    /\ m_map = {}
    /\ overlay_tex = {}
    /\ gl_live = 0
    /\ recent = <<>>
    /\ uploaded_keys = <<>>
    /\ removed_by_call = FALSE

(***************************************************************************)
(* TileManager                                                             *)
(***************************************************************************)

\* the object a std::unique_ptr owns
Owned(p) == IF p = NullProvider THEN {} ELSE {p}

\* "m = std::move(provider)": the object m owned is destroyed, p is owned now
AfterMove(live, old, p) == (live \ Owned(old)) \cup Owned(p)

mgrLocals == <<mgr_pc, mgr_needed, mgr_todo, all_loaded, m_visible_elev>>
mgrProviders == <<m_hgt_provider, m_elev_provider, alive, n_providers>>

\* TileManager::set_hgt_provider with a newly made provider
SetHgtProvider ==
    /\ mgr_pc = "idle" /\ main_pc = "idle"
    /\ n_providers < MaxProviders
    /\ n_providers' = n_providers + 1
    /\ m_hgt_provider' = n_providers + 1
    /\ alive' = AfterMove(alive, m_hgt_provider, n_providers + 1)
    /\ m_elev_loaded' = FALSE
    /\ UNCHANGED <<m_elev_provider, mgrLocals>>
    /\ UNCHANGED <<loaderVars, loaderHist, cacheVars, cacheHist>>
    /\ UNCHANGED <<gpuVars, sceneVars>>

\* TileManager::set_elevation_provider with a newly made provider
SetElevationProvider ==
    /\ mgr_pc = "idle" /\ main_pc = "idle"
    /\ n_providers < MaxProviders
    /\ n_providers' = n_providers + 1
    /\ m_elev_provider' = n_providers + 1
    /\ alive' = AfterMove(alive, m_elev_provider, n_providers + 1)
    /\ m_elev_loaded' = FALSE
    /\ UNCHANGED <<m_hgt_provider, mgrLocals>>
    /\ UNCHANGED <<loaderVars, loaderHist, cacheVars, cacheHist>>
    /\ UNCHANGED <<gpuVars, sceneVars>>

\* TileManager::start_loader and TileManager::stop_loader
StartLoader == mgr_pc = "idle" /\ Start
StopLoader == mgr_pc = "idle" /\ StopStore

\* TileManager::update(cam, proj) up to the loop: with an HGT provider the
\* tiles in view (at least the camera's tile) are to be visited; without one,
\* update() and ensure_elevation_tiles visit the tiles in bounds, unless
\* there is no elevation provider or the tiles are loaded (bounds are set)
UpdateBegin ==
    /\ mgr_pc = "idle" /\ main_pc = "idle"
    /\ IF m_hgt_provider # NullProvider
       THEN /\ \E needed \in (SUBSET Coords) \ {{}} :
                  mgr_needed' = needed /\ mgr_todo' = needed
            /\ mgr_pc' = "dyn_loop"
            /\ UNCHANGED <<all_loaded, m_visible_elev>>
       ELSE IF m_elev_provider = NullProvider \/ m_elev_loaded
       THEN UNCHANGED mgrLocals
       ELSE /\ \E visible \in SUBSET Coords :
                  m_visible_elev' = visible /\ mgr_todo' = visible
            /\ all_loaded' = TRUE
            /\ mgr_pc' = "elev_loop"
            /\ UNCHANGED mgr_needed
    /\ UNCHANGED <<mgrProviders, m_elev_loaded>>
    /\ UNCHANGED <<loaderVars, loaderHist, cacheVars, cacheHist>>
    /\ UNCHANGED <<gpuVars, sceneVars>>

\* one iteration of the loop of update_dynamic_tiles
DynVisit(c) ==
    /\ mgr_pc = "dyn_loop"
    /\ c \in mgr_todo
    /\ mgr_todo' = mgr_todo \ {c}
    /\ IF has(c)
       THEN /\ LET cs == MoveToFront(CacheState, c)
               IN /\ m_lru' = cs.lru
                  /\ m_map' = cs.map
            /\ recent' = Touched(recent, c)
            /\ UNCHANGED <<loaderVars, loaderHist>>
       ELSE /\ UNCHANGED <<m_lru, m_map, recent>>
            /\ IF is_pending(c)
               THEN /\ req_mutex = "free"
                    /\ UNCHANGED <<loaderVars, loaderHist>>
               ELSE /\ request(c, m_hgt_provider)
                    /\ UNCHANGED <<main_pc, out>>
    /\ UNCHANGED <<m_max_tiles, overlay_tex, gl_live, uploaded_keys, removed_by_call>>
    /\ UNCHANGED <<mgrProviders, mgr_pc, mgr_needed, all_loaded, m_visible_elev,
                   m_elev_loaded>>
    /\ UNCHANGED <<gpuVars, sceneVars>>

\* one iteration of the loop of ensure_elevation_tiles
ElevVisit(c) ==
    /\ mgr_pc = "elev_loop"
    /\ c \in mgr_todo
    /\ mgr_todo' = mgr_todo \ {c}
    /\ IF has(c)
       THEN UNCHANGED <<loaderVars, loaderHist, all_loaded>>
       ELSE /\ all_loaded' = FALSE
            /\ IF is_pending(c)
               THEN /\ req_mutex = "free"
                    /\ UNCHANGED <<loaderVars, loaderHist>>
               ELSE /\ request(c, m_elev_provider)
                    /\ UNCHANGED <<main_pc, out>>
    /\ UNCHANGED <<cacheVars, cacheHist>>
    /\ UNCHANGED <<mgrProviders, mgr_pc, mgr_needed, m_visible_elev, m_elev_loaded>>
    /\ UNCHANGED <<gpuVars, sceneVars>>

\* the loop has visited every coord: drain_ready_tiles is called
LoopDone ==
    /\ mgr_pc \in {"dyn_loop", "elev_loop"}
    /\ mgr_todo = {}
    /\ mgr_pc' = IF mgr_pc = "dyn_loop" THEN "dyn_drain" ELSE "elev_drain"
    /\ UNCHANGED <<mgrProviders, mgr_needed, mgr_todo, all_loaded, m_visible_elev,
                   m_elev_loaded>>
    /\ UNCHANGED <<loaderVars, loaderHist, cacheVars, cacheHist>>
    /\ UNCHANGED <<gpuVars, sceneVars>>

\* what follows drain_ready_tiles: update_dynamic_tiles sets m_visible_elev and
\* m_elev_loaded; ensure_elevation_tiles sets m_elev_loaded once every visible
\* tile was in the cache before the drain and is in the cache (cached) after it
UpdateEnd(cached) ==
    /\ mgr_pc' = "idle"
    /\ mgr_needed' = {}
    /\ all_loaded' = TRUE
    /\ IF mgr_pc = "dyn_drain"
       THEN /\ m_visible_elev' = mgr_needed
            /\ m_elev_loaded' = TRUE
       ELSE /\ m_elev_loaded' = IF all_loaded THEN m_visible_elev \subseteq cached
                                ELSE m_elev_loaded
            /\ UNCHANGED m_visible_elev
    /\ UNCHANGED <<mgrProviders, mgr_todo>>

\* drain_ready_tiles, "while (m_loader.poll_result(data))": the first scope of
\* poll_result; with no result the loop and the update end
DrainPoll ==
    /\ mgr_pc \in {"dyn_drain", "elev_drain"}
    /\ main_pc = "idle"
    /\ IF m_results = <<>>
       THEN /\ result_mutex = "free"
            /\ UpdateEnd(Cached)
            /\ UNCHANGED <<loaderVars, loaderHist>>
       ELSE /\ poll_pop
            /\ main_pc' = "poll_erase"
            /\ UNCHANGED mgrVars
    /\ UNCHANGED <<cacheVars, cacheHist>>
    /\ UNCHANGED <<gpuVars, sceneVars>>

\* drain_ready_tiles, the rest of an iteration: the second scope of
\* poll_result, then the upload of a usable tile that is not in the cache, then
\* the test of the time budget
DrainUpload ==
    /\ mgr_pc \in {"dyn_drain", "elev_drain"}
    /\ main_pc = "poll_erase"
    /\ poll_erase
    /\ main_pc' = "idle"
    /\ \E usable \in BOOLEAN :
          IF usable /\ ~has(out.coord)
          THEN /\ Built
               /\ LET cs == upload(CacheState, out.coord, m_max_tiles)
                  IN /\ m_lru' = cs.lru
                     /\ m_map' = cs.map
                     /\ TilesDestroyed(GoneByUpload(out.coord, cs.map), 1)
               /\ recent' = Touched(recent, out.coord)
               /\ uploaded_keys' = FirstUploads(uploaded_keys, out.coord)
          ELSE UNCHANGED <<m_lru, m_map, overlay_tex, gl_live, recent, uploaded_keys>>
    /\ UNCHANGED <<m_max_tiles, removed_by_call>>
    /\ \E over_budget \in BOOLEAN :
          IF over_budget THEN UpdateEnd(Keys(m_map')) ELSE UNCHANGED mgrVars
    /\ UNCHANGED <<gpuVars, sceneVars>>

\* TileManager::clear: m_loader.stop() (at once when the loader is not
\* running), then the cache and the flags
ClearBegin ==
    /\ mgr_pc = "idle" /\ main_pc = "idle"
    /\ mgr_pc' = "clear"
    /\ IF m_running THEN stop_store ELSE UNCHANGED <<loaderVars, loaderHist>>
    /\ UNCHANGED <<cacheVars, cacheHist>>
    /\ UNCHANGED <<mgrProviders, mgr_needed, mgr_todo, all_loaded, m_visible_elev,
                   m_elev_loaded>>
    /\ UNCHANGED <<gpuVars, sceneVars>>

ClearEnd ==
    /\ mgr_pc = "clear" /\ main_pc = "idle"
    /\ mgr_pc' = "idle"
    /\ m_map' = {}
    /\ m_lru' = <<>>
    /\ TilesDestroyed(Cached, 0)
    /\ removed_by_call' = TRUE
    /\ m_elev_loaded' = FALSE
    /\ m_visible_elev' = {}
    /\ UNCHANGED <<m_max_tiles, recent, uploaded_keys>>
    /\ UNCHANGED <<mgrProviders, mgr_needed, mgr_todo, all_loaded>>
    /\ UNCHANGED <<loaderVars, loaderHist>>
    /\ UNCHANGED <<gpuVars, sceneVars>>

(***************************************************************************)
(* Specifications                                                          *)
(***************************************************************************)

\* the TileManager after construction, or with hgt as its HGT provider
MgrInitState(hgt) ==
    /\ m_hgt_provider = hgt
    /\ m_elev_provider = NullProvider
    /\ alive = Owned(hgt)
    /\ n_providers = Cardinality(Owned(hgt))
    /\ mgr_pc = "idle"
    /\ mgr_needed = {}
    /\ mgr_todo = {}
    /\ all_loaded = TRUE
    /\ m_visible_elev = {}
    /\ m_elev_loaded = FALSE

(***************************************************************************)
(* GpuViewshed: the compute engine and its asynchronous state machine      *)
(***************************************************************************)

\* static constexpr int ROWS_PER_CHUNK
ROWS_PER_CHUNK == 128

\* the rows of the grids uploaded: the smallest grid a tile gives, and for
\* every number of row-bands up to MaxBands the largest grid with that many
\* bands and the smallest with one band more
GridRows == {2} \cup {b * ROWS_PER_CHUNK : b \in 1..MaxBands}
                \cup {b * ROWS_PER_CHUNK + 1 : b \in 1..(MaxBands - 1)}

\* mesh3d_prop_model_t
PropModels == {"FSPL", "ITM", "FRESNEL"}

\* a value-initialised ChunkState ("m_chunk = {}")
NoChunk == [nodes |-> 0, current_node |-> 0, current_row |-> 0,
            merge_pending |-> FALSE, active_shader |-> "none"]

\* the shaders GpuViewshed::init has loaded
Loaded == IF m_initialized
          THEN {"FSPL"} \cup (IF m_has_itm THEN {"ITM"} ELSE {})
                        \cup (IF m_has_fresnel THEN {"FRESNEL"} ELSE {})
          ELSE {}

\* set_propagation_model: the selection is refused when its shader is missing
\* a variant of Refused that accepts every selection
RefusedNever(model) == FALSE
Refused(model) ==
    \/ model = "ITM" /\ ~m_has_itm
    \/ model = "FRESNEL" /\ ~m_has_fresnel

\* "Select propagation shader" of compute_all and compute_all_async
\* a variant of ActiveShader that takes the selection as it is
ActiveShaderUnchecked == m_prop_model
ActiveShader ==
    IF m_prop_model = "ITM" /\ m_has_itm THEN "ITM"
    ELSE IF m_prop_model = "FRESNEL" /\ m_has_fresnel THEN "FRESNEL"
    ELSE "FSPL"

\* place_fence, "if (m_fence) glDeleteSync(m_fence)": the sync objects left
\* a variant of SyncsAfterDelete that does not delete the old fence
SyncsKept(fence, syncs) == syncs
SyncsAfterDelete(fence, syncs) == IF fence THEN syncs - 1 ELSE syncs

\* place_fence, "glFlush()": whether the new fence is still queued afterwards
\* a variant of QueuedAfterPlace without the flush
QueuedNoFlush == TRUE
QueuedAfterPlace == FALSE

\* place_fence on an engine state e = [chunk, state, fence, syncs, queued]
place_fence(e) ==
    [e EXCEPT !.syncs = SyncsAfterDelete(e.fence, e.syncs) + 1,
              !.fence = TRUE,
              !.queued = QueuedAfterPlace]

\* clear_merge_textures: the node results the merge textures hold afterwards
\* a variant of ClearedMerge that leaves the textures as they are
ClearedMergeKept(merged) == merged
ClearedMerge(merged) == 0

\* the state compute_all_async leaves when it has dispatched
\* a variant of StateAfterDispatch that reports the work as done
StateAfterDispatchReady == "READY"
StateAfterDispatch == "DISPATCHED"

\* row_end of dispatch_viewshed_band: std::min(row_start + ROWS_PER_CHUNK, m_rows)
\* a variant of BandEnd that does not clamp the last band to the grid
BandEndUnclamped(row_start, rows) == row_start + ROWS_PER_CHUNK
BandEnd(row_start, rows) ==
    IF row_start + ROWS_PER_CHUNK < rows THEN row_start + ROWS_PER_CHUNK ELSE rows

\* dispatch_viewshed_band: the rows [row_start, row_end) of the current node
Logged(e, entry) == IF e.grid_changed THEN e.log ELSE Append(e.log, entry)

dispatch_viewshed_band(e, rows) ==
    [e EXCEPT !.log = Logged(e, [kind |-> "band", node |-> e.chunk.current_node,
                                 row_start |-> e.chunk.current_row,
                                 row_end |-> BandEnd(e.chunk.current_row, rows)])]

\* dispatch_merge: the current node's result is folded into the merge textures
dispatch_merge(e, rows) ==
    [e EXCEPT !.merged = @ + 1,
              !.log = Logged(e, [kind |-> "merge", node |-> e.chunk.current_node,
                                 row_start |-> 0, row_end |-> rows])]

\* advance_chunk, called by poll_state when the fence has signalled
advance_chunk(e, rows) ==
    IF e.chunk.merge_pending
    THEN LET ch == [e.chunk EXCEPT !.merge_pending = FALSE,
                                   !.current_node = @ + 1,
                                   !.current_row = 0]
         IN  IF ch.current_node >= ch.nodes
             THEN [e EXCEPT !.chunk = [ch EXCEPT !.nodes = 0], !.state = "READY"]
             ELSE place_fence(dispatch_viewshed_band([e EXCEPT !.chunk = ch], rows))
    ELSE LET ch == [e.chunk EXCEPT !.current_row = @ + ROWS_PER_CHUNK]
         IN  IF ch.current_row < rows
             THEN place_fence(dispatch_viewshed_band([e EXCEPT !.chunk = ch], rows))
             ELSE place_fence(
                     [dispatch_merge([e EXCEPT !.chunk = ch], rows)
                         EXCEPT !.chunk.merge_pending = TRUE])

\* the engine state as the record the operators of the engine work on: the
\* members the asynchronous calls write, the GL context and the history
EngineState ==
    [chunk |-> m_chunk, state |-> m_state, fence |-> m_fence, rows |-> m_rows,
     syncs |-> gl_syncs, queued |-> gl_fence_queued, merged |-> gl_merged,
     polls |-> polls, kick_nodes |-> kick_nodes, grid_changed |-> grid_changed,
     early_readback |-> early_readback, rekicked |-> rekicked,
     last_shader |-> last_shader, log |-> dispatch_log]

BecomesEngineState(e) ==
    /\ m_chunk' = e.chunk
    /\ m_state' = e.state
    /\ m_fence' = e.fence
    /\ m_rows' = e.rows
    /\ gl_syncs' = e.syncs
    /\ gl_fence_queued' = e.queued
    /\ gl_merged' = e.merged
    /\ polls' = e.polls
    /\ kick_nodes' = e.kick_nodes
    /\ grid_changed' = e.grid_changed
    /\ early_readback' = e.early_readback
    /\ rekicked' = e.rekicked
    /\ last_shader' = e.last_shader
    /\ dispatch_log' = e.log

\* the members no asynchronous call writes
engConfig == <<m_initialized, m_has_itm, m_has_fresnel, m_prop_model, refused_keep>>

restUnchangedByEngine ==
    UNCHANGED <<loaderVars, loaderHist, cacheVars, cacheHist, mgrVars, tvsVars,
                sceneVars>>

\* upload_elevation and set_grid_params for a grid of rows rows:
\* create_textures keeps the textures of a grid of the same size
upload_elevation(e, rows) ==
    [e EXCEPT !.rows = rows, !.grid_changed = @ \/ rows # e.rows,
              !.log = IF rows # e.rows THEN <<>> ELSE @]

\* compute_all_async(nodes, cpu_elevation) with n nodes
compute_all_async(e, n) ==
    IF ~m_initialized \/ e.rows = 0 THEN e
    ELSE LET ch == [NoChunk EXCEPT !.active_shader = ActiveShader, !.nodes = n]
             e1 == [e EXCEPT !.chunk = ch, !.polls = 0, !.kick_nodes = n,
                             !.grid_changed = FALSE,
                             !.merged = ClearedMerge(@), !.log = <<>>]
         IN  IF n = 0 THEN e1
             ELSE [place_fence(dispatch_viewshed_band(e1, e.rows)) EXCEPT !.state = StateAfterDispatch,
                                          !.early_readback = FALSE,
                                          !.rekicked = (e.state = "DISPATCHED"),
                                          !.last_shader = ActiveShader]

\* poll_state, "if (result != GL_ALREADY_SIGNALED && result !=
\* GL_CONDITION_SATISFIED) return m_state": the work is still running
\* a variant of StillRunning that takes every fence for signalled
StillRunningNever(signalled) == FALSE
StillRunning(signalled) == ~signalled

\* poll_state(); signalled is what glClientWaitSync reports for m_fence
poll_state(e, signalled) ==
    IF e.state # "DISPATCHED" \/ StillRunning(signalled) THEN e
    ELSE LET e1 == [e EXCEPT !.syncs = @ - 1, !.fence = FALSE,
                             !.polls = IF signalled THEN @ + 1 ELSE @]
         IN  IF e1.chunk.nodes # 0
             THEN advance_chunk(e1, e1.rows)
             ELSE [e1 EXCEPT !.state = "READY"]

\* read_back_async: read_back, then "m_state = ComputeState::IDLE"
read_back_async(e) ==
    [e EXCEPT !.state = "IDLE",
              !.early_readback = (@ \/ e.state = "DISPATCHED")]

\* a fence that was never flushed to the GPU cannot signal
FenceOutcomes == IF gl_fence_queued THEN {FALSE} ELSE BOOLEAN

\* GpuViewshed::init on an engine that is not initialised: is_available, the
\* two mandatory shaders, then the two optional ones
EngInit ==
    /\ ~m_initialized
    /\ \E available, viewshed_ok, merge_ok, itm_ok, fresnel_ok \in BOOLEAN :
          IF available /\ viewshed_ok /\ merge_ok
          THEN /\ m_has_itm' = itm_ok
               /\ m_has_fresnel' = fresnel_ok
               /\ m_initialized' = TRUE
          ELSE UNCHANGED <<m_has_itm, m_has_fresnel, m_initialized>>
    /\ UNCHANGED <<m_prop_model, refused_keep>>
    /\ BecomesEngineState(EngineState)
    /\ restUnchangedByEngine

\* GpuViewshed::set_propagation_model
SetPropagationModel(model) ==
    /\ m_prop_model' = IF Refused(model) THEN m_prop_model ELSE model
    /\ refused_keep' = IF Refused(model) THEN m_prop_model ELSE "none"
    /\ UNCHANGED <<m_initialized, m_has_itm, m_has_fresnel>>
    /\ BecomesEngineState(EngineState)
    /\ restUnchangedByEngine

\* GpuViewshed::upload_elevation and set_grid_params
UploadElevation(rows) ==
    /\ BecomesEngineState(upload_elevation(EngineState, rows))
    /\ UNCHANGED engConfig
    /\ restUnchangedByEngine

\* GpuViewshed::compute_all (blocking) with n nodes
ComputeAll(n) ==
    /\ BecomesEngineState(
          IF m_initialized /\ m_rows # 0
          THEN [EngineState EXCEPT
                   !.merged = ClearedMerge(@) + n,
                   !.last_shader = IF n > 0 THEN ActiveShader ELSE @]
          ELSE EngineState)
    /\ UNCHANGED engConfig
    /\ restUnchangedByEngine

\* GpuViewshed::compute_all_async with n nodes
ComputeAllAsync(n) ==
    /\ BecomesEngineState(compute_all_async(EngineState, n))
    /\ UNCHANGED engConfig
    /\ restUnchangedByEngine

\* GpuViewshed::poll_state
PollState ==
    /\ \E signalled \in FenceOutcomes :
          BecomesEngineState(poll_state(EngineState, signalled))
    /\ UNCHANGED engConfig
    /\ restUnchangedByEngine

\* GpuViewshed::read_back_async
ReadBackAsync ==
    /\ BecomesEngineState(read_back_async(EngineState))
    /\ UNCHANGED engConfig
    /\ restUnchangedByEngine

\* the asynchronous part of a default-constructed GpuViewshed
EngineAsyncInitState ==
    /\ refused_keep = "none"
    /\ m_rows = 0
    /\ m_state = "IDLE"
    /\ m_fence = FALSE
    /\ m_chunk = NoChunk
    /\ gl_syncs = 0
    /\ gl_fence_queued = FALSE
    /\ gl_merged = 0
    /\ polls = 0
    /\ kick_nodes = 0
    /\ grid_changed = FALSE
    /\ early_readback = FALSE
    /\ rekicked = FALSE
    /\ last_shader = "none"
    /\ dispatch_log = <<>>

\* a default-constructed GpuViewshed
EngineInitState ==
    /\ m_initialized = FALSE
    /\ m_has_itm = FALSE
    /\ m_has_fresnel = FALSE
    /\ m_prop_model = "ITM"
    /\ EngineAsyncInitState

(***************************************************************************)
(* TileManager: the per-tile viewshed orchestrator                         *)
(***************************************************************************)

\* the rows of a tile's elevation grid (and of its composite: the tiles of
\* the model lie side by side on one row of the tile grid)
TileRows == ROWS_PER_CHUNK + 1

\* an elevation texture of no tile, and overlay arrays that hold no result
NoJob == [tile |-> 0, nbrs |-> {}]
NoOverlay == [tile |-> 0, nbrs |-> {}, nodes |-> 0]

\* for_each over the std::unordered_map: the entries in some order
Orders(S) ==
    {s \in [1..Cardinality(S) -> S] : \A i, j \in DOMAIN s : i # j => s[i] # s[j]}

\* build_composite_elevation: the cached tiles next to c (x - 1 and x + 1)
Neighbours(map, c) == {c - 1, c + 1} \cap Keys(map)

\* TileCache::get on the cache state cs = [lru, map, recent]
get(cs, c) ==
    IF c \in Keys(cs.map)
    THEN LET moved == MoveToFront([lru |-> cs.lru, map |-> cs.map], c)
         IN  [lru |-> moved.lru, map |-> moved.map, recent |-> Touched(cs.recent, c)]
    ELSE cs

\* the state the orchestrator's calls work on: the cache, the engine, the
\* job the engine's textures are of
OrchState ==
    [cs |-> [lru |-> m_lru, map |-> m_map, recent |-> recent],
     e |-> EngineState, job |-> gpu_job]

\* dispatch_tile_viewshed for the tile at index idx of list, with n nodes: a
\* tile that is not cached is passed over without a word to the engine
dispatch_tile_viewshed(st, list, idx, n) ==
    LET tile == list[idx + 1]
    IN  IF tile \notin Keys(st.cs.map) THEN st
        ELSE LET cs1 == get(st.cs, tile)
                 cs2 == get(get(cs1, tile - 1), tile + 1)
             IN  [cs |-> cs2,
                  e |-> compute_all_async(upload_elevation(st.e, TileRows), n),
                  job |-> [tile |-> tile, nbrs |-> Neighbours(cs1.map, tile)]]

BecomesOrchState(st) ==
    /\ m_lru' = st.cs.lru
    /\ m_map' = st.cs.map
    /\ recent' = st.cs.recent
    /\ BecomesEngineState(st.e)
    /\ gpu_job' = st.job

\* TileManager::kick_viewshed_gpu with n nodes
KickViewshedGpu(n) ==
    /\ kicks < MaxKicks
    /\ kicks' = kicks + 1
    /\ vs_nodes' = n
    /\ rekick_mid' = (rekick_mid \/ tvs_active)
    /\ gl_live' = gl_live - 2 * Cardinality(overlay_tex)
    /\ overlay_tex' = {}
    /\ tile_overlay' = [c \in CacheKeys |-> NoOverlay]
    /\ \E list \in Orders(Cached) :
          /\ tvs_tile_list' = list
          /\ IF list = <<>>
             THEN /\ UNCHANGED <<tvs_current_tile, tvs_active>>
                  /\ BecomesOrchState(OrchState)
             ELSE /\ tvs_current_tile' = 0
                  /\ tvs_active' = TRUE
                  /\ \E first \in {dispatch_tile_viewshed(OrchState, list, 0, n)} :
                        BecomesOrchState(first)
    /\ UNCHANGED <<m_max_tiles, uploaded_keys, removed_by_call>>
    /\ UNCHANGED <<loaderVars, loaderHist, mgrVars, engConfig, sceneVars>>

\* poll_viewshed_gpu; signalled is what the engine's fence reports to this
\* call.  (The values the call computes one after another are bound by
\* quantifiers over singleton sets.)
poll_viewshed_gpu(signalled) ==
    /\ IF ~tvs_active
       THEN /\ BecomesOrchState(OrchState)
            /\ UNCHANGED <<tvs_current_tile, tvs_active, tile_overlay,
                           overlay_tex, gl_live>>
       ELSE \E after_poll \in {[OrchState EXCEPT !.e = poll_state(@, signalled)]} :
            IF after_poll.e.state # "READY"
            THEN /\ BecomesOrchState(after_poll)
                 /\ UNCHANGED <<tvs_current_tile, tvs_active, tile_overlay,
                                overlay_tex, gl_live>>
            ELSE LET idx == tvs_current_tile
                     found == /\ idx < Len(tvs_tile_list)
                              /\ tvs_tile_list[idx + 1] \in Cached
                     tile == tvs_tile_list[idx + 1]
                 IN  \E read \in {IF found
                                  THEN [after_poll EXCEPT !.cs = get(@, tile),
                                                          !.e = read_back_async(@)]
                                  ELSE after_poll} :
                     /\ IF found
                        THEN /\ tile_overlay' =
                                   [tile_overlay EXCEPT ![tile] =
                                       [tile |-> after_poll.job.tile,
                                        nbrs |-> after_poll.job.nbrs,
                                        nodes |-> after_poll.e.merged]]
                             /\ overlay_tex' = overlay_tex \cup {tile}
                             /\ IF tile \in overlay_tex
                                THEN UNCHANGED gl_live
                                ELSE /\ gl_live + 2 <= MaxGlObjects
                                     /\ gl_live' = gl_live + 2
                        ELSE UNCHANGED <<tile_overlay, overlay_tex, gl_live>>
                     /\ tvs_current_tile' = idx + 1
                     /\ IF idx + 1 < Len(tvs_tile_list)
                        THEN /\ \E next \in {dispatch_tile_viewshed(
                                                 read, tvs_tile_list, idx + 1,
                                                 vs_nodes)} :
                                    BecomesOrchState(next)
                             /\ UNCHANGED tvs_active
                        ELSE /\ BecomesOrchState(read)
                             /\ tvs_active' = FALSE
    /\ UNCHANGED <<tvs_tile_list, kicks, vs_nodes, rekick_mid>>
    /\ UNCHANGED <<m_max_tiles, uploaded_keys, removed_by_call>>
    /\ UNCHANGED <<loaderVars, loaderHist, mgrVars, engConfig, sceneVars>>

\* TileManager::poll_viewshed_gpu
PollViewshedGpu == \E signalled \in FenceOutcomes : poll_viewshed_gpu(signalled)

\* a poll_viewshed_gpu call that finds the fence signalled
PollViewshedGpuSignalled == poll_viewshed_gpu(TRUE)

\* the orchestrator of a newly made TileManager
OrchInitState ==
    /\ tvs_tile_list = <<>>
    /\ tvs_current_tile = 0
    /\ tvs_active = FALSE
    /\ tile_overlay = [c \in CacheKeys |-> NoOverlay]
    /\ gpu_job = NoJob
    /\ kicks = 0
    /\ vs_nodes = 0
    /\ rekick_mid = FALSE

(***************************************************************************)
(* TileCache::upload followed statement by statement, for any max_tiles    *)
(***************************************************************************)

\* no upload is under way
UploadInitState ==
    /\ up_pc = "idle"
    /\ up_coord = 0

\* upload(tile) up to the eviction loop: a cached coord is assigned over and
\* moved to the front, and the call returns
UploadCall(c) ==
    /\ up_pc = "idle"
    /\ Built
    /\ IF has(c)
       THEN /\ LET cs == MoveToFront(CacheState, c)
               IN /\ m_lru' = cs.lru
                  /\ m_map' = cs.map
            /\ TilesDestroyed({c}, 1)
            /\ recent' = Touched(recent, c)
            /\ UNCHANGED <<up_pc, up_coord, uploaded_keys>>
       ELSE /\ up_pc' = "while"
            /\ up_coord' = c
            /\ gl_live' = gl_live + 1
            /\ UNCHANGED <<m_lru, m_map, overlay_tex, recent, uploaded_keys>>
    /\ UNCHANGED <<m_max_tiles, removed_by_call>>
    /\ UNCHANGED exceptUpload

\* "while (static_cast<int>(m_map.size()) >= m_max_tiles) evict_lru();" one
\* test at a time, and after it the insertion and the return
UploadWhile ==
    /\ up_pc = "while"
    /\ IF Cardinality(m_map) >= m_max_tiles
       THEN /\ LET cs == evict_lru(CacheState)
               IN /\ m_lru' = cs.lru
                  /\ m_map' = cs.map
                  /\ TilesDestroyed(Cached \ Keys(cs.map), 0)
            /\ UNCHANGED <<up_pc, up_coord, recent, uploaded_keys>>
       ELSE /\ LET lru2 == LruPushFront(m_lru, up_coord)
               IN /\ m_lru' = lru2
                  /\ m_map' = MapPut(m_map, up_coord, lru2[1].node)
            /\ recent' = Touched(recent, up_coord)
            /\ uploaded_keys' = FirstUploads(uploaded_keys, up_coord)
            /\ up_pc' = "idle"
            /\ up_coord' = 0
            /\ UNCHANGED <<overlay_tex, gl_live>>
    /\ UNCHANGED <<m_max_tiles, removed_by_call>>
    /\ UNCHANGED exceptUpload

(***************************************************************************)
(* GpuViewshed: the six textures, create_textures / destroy_textures       *)
(***************************************************************************)

TexMembers == {"m_elevation_tex", "m_node_vis_tex", "m_node_sig_tex",
               "m_merged_vis_tex", "m_merged_sig_tex", "m_overlap_tex"}

\* the order in which create_textures makes them
TexOrder == <<"m_elevation_tex", "m_node_vis_tex", "m_node_sig_tex",
              "m_merged_vis_tex", "m_merged_sig_tex", "m_overlap_tex">>

\* "GLuint m_elevation_tex = 0" and the five others
NoTextures == [t \in TexMembers |-> 0]

\* what "t = 0" in the loop of destroy_textures leaves in the members: t is
\* a reference into the local array textures[], which holds copies
\* a variant of MembersAfterDestroy in which the members themselves are zeroed
MembersZeroed(members) == NoTextures
MembersAfterDestroy(members) == members

\* the n lowest names above "from" that are not in use
RECURSIVE LowestUnused(_, _, _)
LowestUnused(inuse, from, n) ==
    IF n = 0 THEN {}
    ELSE IF from + 1 \in inuse THEN LowestUnused(inuse, from + 1, n)
    ELSE {from + 1} \cup LowestUnused(inuse, from + 1, n - 1)

\* glGenTextures(n): n names that are not in use, either the lowest ones
\* (names of deleted textures are given again) or names never given before
glGenTextures(inuse, high, n, reuse) ==
    IF reuse THEN LowestUnused(inuse, 0, n) ELSE (high + 1)..(high + n)

Highest(names, high) ==
    CHOOSE h \in names \cup {high} : \A k \in names \cup {high} : k <= h

\* the i-th of a set of names, in increasing order
Nth(names, i) ==
    CHOOSE k \in names : Cardinality({j \in names : j <= k}) = i

\* destroy_textures on [rows, tex, names, owned, again, high]
destroy_textures(g) ==
    LET handed == {g.tex[t] : t \in TexMembers} \ {0}
    IN  [g EXCEPT !.rows = 0,
                  !.tex = MembersAfterDestroy(@),
                  !.names = @ \ handed,
                  !.owned = @ \ handed,
                  !.again = @ \cup (handed \ g.owned)]

create_textures(g, rows, reuse) ==
    IF g.rows = rows /\ g.tex["m_elevation_tex"] # 0 THEN g
    ELSE LET d == destroy_textures(g)
             gen == glGenTextures(d.names, d.high, 6, reuse)
             made == [t \in TexMembers |->
                         Nth(gen, CHOOSE i \in 1..6 : TexOrder[i] = t)]
         IN  [d EXCEPT !.rows = rows, !.tex = made,
                       !.names = @ \cup gen,
                       !.owned = @ \cup gen,
                       !.high = Highest(gen, @)]

TexState == [rows |-> tex_rows, tex |-> m_tex, names |-> gl_tex_names,
             owned |-> tex_owned, again |-> tex_deleted_again,
             high |-> tex_high]

BecomesTexState(g) ==
    /\ tex_rows' = g.rows
    /\ m_tex' = g.tex
    /\ gl_tex_names' = g.names
    /\ tex_owned' = g.owned
    /\ tex_deleted_again' = g.again
    /\ tex_high' = g.high

\* upload_elevation(data, rows, cols): create_textures(rows, cols)
TexUploadElevation(rows) ==
    /\ tex_alive
    /\ \E reuse \in BOOLEAN :
         \E g \in {create_textures(TexState, rows, reuse)} :
            /\ g.high <= MaxTexNames
            /\ BecomesTexState(g)
    /\ UNCHANGED <<tex_alive, tex_others>>
    /\ UNCHANGED exceptTex

\* GpuViewshed::shutdown
TexShutdown ==
    /\ tex_alive
    /\ BecomesTexState(destroy_textures(TexState))
    /\ UNCHANGED <<tex_alive, tex_others>>
    /\ UNCHANGED exceptTex

\* GpuViewshed::~GpuViewshed: shutdown()
TexDestructor ==
    /\ tex_alive
    /\ BecomesTexState(destroy_textures(TexState))
    /\ tex_alive' = FALSE
    /\ UNCHANGED tex_others
    /\ UNCHANGED exceptTex

\* another owner of textures in the same GL context (a tile's elevation,
\* imagery or overlay texture) generates one
TexOtherOwner ==
    /\ Cardinality(tex_others) < MaxOtherTextures
    /\ \E reuse \in BOOLEAN :
         \E gen \in {glGenTextures(gl_tex_names, tex_high, 1, reuse)} :
            /\ Highest(gen, tex_high) <= MaxTexNames
            /\ gl_tex_names' = gl_tex_names \cup gen
            /\ tex_others' = tex_others \cup gen
            /\ tex_high' = Highest(gen, tex_high)
    /\ UNCHANGED <<tex_alive, tex_rows, m_tex, tex_owned, tex_deleted_again>>
    /\ UNCHANGED exceptTex

\* a default-constructed GpuViewshed in a context without textures
TexInitState ==
    /\ tex_alive = TRUE
    /\ tex_rows = 0
    /\ m_tex = NoTextures
    /\ gl_tex_names = {}
    /\ tex_others = {}
    /\ tex_high = 0
    /\ tex_owned = {}
    /\ tex_deleted_again = {}

(***************************************************************************)
(* TileManager: the imagery source                                         *)
(***************************************************************************)

\* enum class ImagerySource { SATELLITE, STREET, NONE }, in this order
ImagerySources == <<"SATELLITE", "STREET", "NONE">>

ImagerySource == {ImagerySources[i] : i \in 1..3}

\* the provider set_imagery_source installs for a source
ProviderOf(src) ==
    CASE src = "SATELLITE" -> "satellite"
      [] src = "STREET" -> "street"
      [] src = "NONE" -> "null"

\* Texture(): no GL texture
NoTexture == "invalid"

\* a TileRenderable as drain_ready_tiles uploads it: mesh and elevation of
\* the coord, no imagery, no overlays
BuiltTile(c) ==
    [coord |-> c, mesh |-> c, elevation |-> c, texture |-> NoTexture,
     viewshed |-> FALSE, overlay_tex_valid |-> FALSE]

\* the lambda of set_imagery_source: tr.texture = Texture()
\* a variant of Stripped that resets the overlays with the texture
StrippedWithOverlays(tr) ==
    [tr EXCEPT !.texture = NoTexture, !.viewshed = FALSE,
               !.overlay_tex_valid = FALSE]
Stripped(tr) == [tr EXCEPT !.texture = NoTexture]

\* TileCache::for_each_mut
for_each_mut(tiles, fn(_)) == [c \in DOMAIN tiles |-> fn(tiles[c])]

\* TileManager::set_imagery_source
SetImagerySource(src) ==
    /\ IF src = m_imagery_source
       THEN UNCHANGED imgVars
       ELSE /\ m_imagery_source' = src
            /\ m_imagery_provider' = ProviderOf(src)
            /\ img_tiles' = for_each_mut(img_tiles, Stripped)
            /\ img_stripped' =
                   {c \in DOMAIN img_tiles : img_tiles[c].texture # NoTexture}
    /\ UNCHANGED exceptImg

IndexOf(src) == CHOOSE i \in 1..3 : ImagerySources[i] = src

\* TileManager::cycle_imagery_source: the next source, modulo 3
CycleImagerySource ==
    SetImagerySource(ImagerySources[((IndexOf(m_imagery_source) - 1 + 1) % 3) + 1])

\* TileManager::set_imagery_provider
SetImageryProvider(provider) ==
    /\ m_imagery_provider' = provider
    /\ img_stripped' = {}
    /\ UNCHANGED <<m_imagery_source, img_tiles>>
    /\ UNCHANGED exceptImg

\* drain_ready_tiles: a built tile enters the cache
ImgTileUploaded(c) ==
    /\ c \notin DOMAIN img_tiles
    /\ img_tiles' = [k \in DOMAIN img_tiles \cup {c} |->
                        IF k = c THEN BuiltTile(c) ELSE img_tiles[k]]
    /\ img_stripped' = {}
    /\ UNCHANGED <<m_imagery_source, m_imagery_provider>>
    /\ UNCHANGED exceptImg

\* ensure_imagery_tiles: the tiles without texture get one composited from
\* the provider; composite_imagery_for_tile returns early for the tiles in
\* "missed" (no imagery coords, empty crop)
EnsureImageryTiles(missed) ==
    /\ m_imagery_provider # "null"
    /\ m_imagery_source # "NONE"
    /\ img_tiles' =
          [c \in DOMAIN img_tiles |->
              IF img_tiles[c].texture # NoTexture \/ c \in missed
              THEN img_tiles[c]
              ELSE [img_tiles[c] EXCEPT !.texture = m_imagery_provider]]
    /\ img_stripped' = {}
    /\ UNCHANGED <<m_imagery_source, m_imagery_provider>>
    /\ UNCHANGED exceptImg

\* apply_viewshed_overlays: every cached tile gets its overlays
ApplyViewshedOverlays ==
    /\ img_tiles' = [c \in DOMAIN img_tiles |->
                        [img_tiles[c] EXCEPT !.viewshed = TRUE,
                                             !.overlay_tex_valid = TRUE]]
    /\ img_stripped' = {}
    /\ UNCHANGED <<m_imagery_source, m_imagery_provider>>
    /\ UNCHANGED exceptImg

\* a TileManager after construction: ImagerySource::NONE, no provider
ImgInitState ==
    /\ m_imagery_source = "NONE"
    /\ m_imagery_provider = "null"
    /\ img_tiles = <<>>
    /\ img_stripped = {}

(***************************************************************************)
(* TileManager: build_composite_elevation and extract_center_results       *)
(***************************************************************************)

\* the eight neighbours of the center, as <<dx, dy>>
Offsets == {o \in (-1..1) \X (-1..1) : o # <<0, 0>>}

\* what TileCache::get gives for a neighbour: nothing, a tile of the
\* center's dimensions, a tile of other dimensions (SRTM1 beside SRTM3)
NbKinds == {"absent", "same", "other"}

\* center.coord.z: -1 for a degree-keyed tile, a zoom for a slippy-map tile
CenterZs == {-1, SlippyZoom}

\* the elevation of the tile at offset o, cell (r, c): distinct everywhere
Elev(o, r, c) == 1000 * (3 * (o[2] + 1) + (o[1] + 1) + 1) + 10 * r + c

\* elev_rows and elev_cols of a cached tile
ElevRows(kind) == IF kind = "other" THEN CompTileRows + 1 ELSE CompTileRows
ElevCols(kind) == IF kind = "other" THEN CompTileCols + 1 ELSE CompTileCols

\* the row-major elevation of the tile at offset o, <<0, 0>> being the center
Elevation(o, kind) ==
    [i \in 0..(ElevRows(kind) * ElevCols(kind) - 1) |->
        Elev(o, i \div ElevCols(kind), i % ElevCols(kind))]

\* the bounds of the center tile, in tenths of its spans
CenterBounds == [min_lat |-> 0, max_lat |-> LatSpan,
                 min_lon |-> 0, max_lon |-> LonSpan]

\* int gr = hgt_mode ? (1 - dy) : (1 + dy)
\* a variant of GridRow without the hgt_mode case
GridRowSlippy(hgt_mode, dy) == 1 + dy
GridRow(hgt_mode, dy) == IF hgt_mode THEN 1 - dy ELSE 1 + dy

\* the nb[3][3] of build_composite_elevation, row by row: the offset of the
\* tile put at each place, <<2, 2>> for a null pointer
Null == <<2, 2>>

nb_at(z, cache, gr, gc) ==
    LET hgt_mode == (z = -1)
        put == {o \in Offsets :
                  /\ cache[o] # "absent"
                  /\ ElevRows(cache[o]) = ElevRows("same")
                  /\ ElevCols(cache[o]) = ElevCols("same")
                  /\ gr = GridRow(hgt_mode, o[2])
                  /\ gc = o[1] + 1}
    IN  IF gr = 1 /\ gc = 1 THEN <<0, 0>>
        ELSE IF put = {} THEN Null ELSE CHOOSE o \in put : TRUE

neighbourhood(z, cache) ==
    <<nb_at(z, cache, 0, 0), nb_at(z, cache, 0, 1), nb_at(z, cache, 0, 2),
      nb_at(z, cache, 1, 0), nb_at(z, cache, 1, 1), nb_at(z, cache, 1, 2),
      nb_at(z, cache, 2, 0), nb_at(z, cache, 2, 1), nb_at(z, cache, 2, 2)>>

\* the four extents: <<top_rows, bottom_rows, left_cols, right_cols>>
extents(nb) ==
    LET at(gr, gc) == nb[3 * gr + gc + 1] # Null
    IN  <<IF at(0, 0) \/ at(0, 1) \/ at(0, 2) THEN ElevRows("same") ELSE 0,
          IF at(2, 0) \/ at(2, 1) \/ at(2, 2) THEN ElevRows("same") ELSE 0,
          IF at(0, 0) \/ at(1, 0) \/ at(2, 0) THEN ElevCols("same") ELSE 0,
          IF at(0, 2) \/ at(1, 2) \/ at(2, 2) THEN ElevCols("same") ELSE 0>>

\* the cell (r, c) of the composite after the blits of the tiles of nb: the
\* blits do not overlap, so a cell has the value of the one blit over it
blitted(nb, ext, r, c) ==
    LET cr == ElevRows("same")
        cc == ElevCols("same")
        dst_r(gr) == IF gr = 0 THEN 0 ELSE IF gr = 1 THEN ext[1] ELSE ext[1] + cr
        dst_c(gc) == IF gc = 0 THEN 0 ELSE IF gc = 1 THEN ext[3] ELSE ext[3] + cc
        over == {g \in (0..2) \X (0..2) :
                   /\ nb[3 * g[1] + g[2] + 1] # Null
                   /\ r >= dst_r(g[1]) /\ r < dst_r(g[1]) + cr
                   /\ c >= dst_c(g[2]) /\ c < dst_c(g[2]) + cc}
    IN  IF over = {} THEN 0
        ELSE LET g == CHOOSE g \in over : TRUE
             IN  Elev(nb[3 * g[1] + g[2] + 1], r - dst_r(g[1]), c - dst_c(g[2]))

\* build_composite_elevation after the search of the neighbours: the
\* CompositeElevation made of nb and its extents
build_composite_elevation(nb, ext) ==
    LET rows == ext[1] + ElevRows("same") + ext[2]
        cols == ext[3] + ElevCols("same") + ext[4]
        lat_span == CenterBounds.max_lat - CenterBounds.min_lat
        lon_span == CenterBounds.max_lon - CenterBounds.min_lon
    IN  [data |-> [i \in 0..(rows * cols - 1) |->
                     blitted(nb, ext, i \div cols, i % cols)],
         rows |-> rows, cols |-> cols,
         center_row_start |-> ext[1], center_col_start |-> ext[3],
         center_rows |-> ElevRows("same"), center_cols |-> ElevCols("same"),
         bounds |-> [max_lat |-> CenterBounds.max_lat
                                   + (IF ext[1] > 0 THEN lat_span ELSE 0),
                     min_lat |-> CenterBounds.min_lat
                                   - (IF ext[2] > 0 THEN lat_span ELSE 0),
                     min_lon |-> CenterBounds.min_lon
                                   - (IF ext[3] > 0 THEN lon_span ELSE 0),
                     max_lon |-> CenterBounds.max_lon
                                   + (IF ext[4] > 0 THEN lon_span ELSE 0)]]

\* a default-constructed CompositeElevation
NoComposite ==
    [data |-> <<>>, rows |-> 0, cols |-> 0,
     center_row_start |-> 0, center_col_start |-> 0,
     center_rows |-> 0, center_cols |-> 0,
     bounds |-> [max_lat |-> 0, min_lat |-> 0, min_lon |-> 0, max_lon |-> 0]]

\* int src_off = src_row * ce.cols + ce.center_col_start
\* a variant of SrcOff that forgets the column offset
SrcOffNoColumn(ce, r) == (ce.center_row_start + r) * ce.cols
SrcOff(ce, r) == (ce.center_row_start + r) * ce.cols + ce.center_col_start

\* extract_center_results(ce, comp, tile), for one of the two arrays
extract_center_results(ce, comp) ==
    [i \in 0..(ce.center_rows * ce.center_cols - 1) |->
        comp[SrcOff(ce, i \div ce.center_cols) + (i % ce.center_cols)]]

\* the composite-shaped results handed to the extraction: one value
\* everywhere, or each cell its own index
ResultKinds == {"uniform", "index"}

CompResult(ce, kind) ==
    [i \in 0..(ce.rows * ce.cols - 1) |-> IF kind = "uniform" THEN Uniform ELSE i]

\* a tile enters or leaves the cache at a neighbour of the center
NeighbourBecomes(o, kind) ==
    /\ comp_ce = NoComposite
    /\ comp_cache[o] # kind
    /\ comp_cache' = [comp_cache EXCEPT ![o] = kind]
    /\ UNCHANGED <<comp_z, comp_ce, comp_result, comp_tile>>
    /\ UNCHANGED exceptComp

\* another center tile: degree-keyed or slippy
CenterBecomes(z) ==
    /\ comp_ce = NoComposite
    /\ comp_z # z
    /\ comp_z' = z
    /\ UNCHANGED <<comp_cache, comp_ce, comp_result, comp_tile>>
    /\ UNCHANGED exceptComp

\* auto ce = build_composite_elevation(tr, m_cache)
BuildComposite ==
    /\ comp_ce = NoComposite
    /\ \E nb \in {neighbourhood(comp_z, comp_cache)} :
         \E ext \in {extents(nb)} : comp_ce' = build_composite_elevation(nb, ext)
    /\ UNCHANGED <<comp_z, comp_cache, comp_result, comp_tile>>
    /\ UNCHANGED exceptComp

\* extract_center_results(ce, comp_vis, comp_sig, tile_vis, tile_sig)
ExtractCenter(kind) ==
    /\ comp_ce # NoComposite
    /\ comp_result # kind
    /\ comp_result' = kind
    /\ comp_tile' = extract_center_results(comp_ce, CompResult(comp_ce, kind))
    /\ UNCHANGED <<comp_z, comp_cache, comp_ce>>
    /\ UNCHANGED exceptComp

\* the end of the loop body that built the composite: ce and the result
\* arrays go out of scope
CompositeDone ==
    /\ comp_ce # NoComposite
    /\ comp_ce' = NoComposite
    /\ comp_result' = "none"
    /\ comp_tile' = <<>>
    /\ UNCHANGED <<comp_z, comp_cache>>
    /\ UNCHANGED exceptComp

\* a degree-keyed center tile alone in the cache, nothing computed
CompInitState ==
    /\ comp_z = -1
    /\ comp_cache = [o \in Offsets |-> "absent"]
    /\ comp_ce = NoComposite
    /\ comp_result = "none"
    /\ comp_tile = <<>>

(***************************************************************************)
(* DSMProvider: latlon_to_dsm_coord and dsm_tile_bounds                    *)
(***************************************************************************)

\* a TileCoord initialised from a braced list: struct TileCoord { int z, x, y; }
\* takes the values in the order of its members
\* a variant of BracedTileCoord that takes them as x, y, z
BracedAsXYZ(a, b, c) == [z |-> c, x |-> a, y |-> b]
BracedTileCoord(a, b, c) == [z |-> a, x |-> b, y |-> c]

\* static_cast<int>(std::floor(v * 100.0)), v in 1/10000 degree
floor_times_100(v) == v \div 100

\* return {floor(lon * 100.0), floor(lat * 100.0), -2}
latlon_to_dsm_coord(lat, lon) ==
    BracedTileCoord(floor_times_100(lon), floor_times_100(lat), -2)

\* coord.x / 100.0 and coord.y / 100.0 with 0.01 added, in 1/10000 degree
dsm_tile_bounds(coord) ==
    [min_lat |-> coord.y * 100, max_lat |-> coord.y * 100 + 100,
     min_lon |-> coord.x * 100, max_lon |-> coord.x * 100 + 100]

\* latitudes and longitudes around cell borders, the equator and Greenwich
DsmLats == {-385012, -100, -1, 0, 99, 100, 385000, 385099}
DsmLons == {-1065050, -1065000, -1064999, -101, -100, -1, 0, 1, 99, 100,
            1065000, 1065050, 1799999}

\* latlon_to_dsm_coord(lat, lon), then dsm_tile_bounds of the result
LatLonToDsmCoord(lat, lon) ==
    /\ dsm_lat' = lat
    /\ dsm_lon' = lon
    /\ dsm_coord' = latlon_to_dsm_coord(lat, lon)
    /\ dsm_bounds' = dsm_tile_bounds(latlon_to_dsm_coord(lat, lon))
    /\ UNCHANGED exceptDsm

\* nothing asked for yet: a zeroed coordinate and zeroed bounds
NoDsmCoord == [z |-> 0, x |-> 0, y |-> 0]

DsmInitState ==
    /\ dsm_lat = 0
    /\ dsm_lon = 0
    /\ dsm_coord = NoDsmCoord
    /\ dsm_bounds = [min_lat |-> 0, max_lat |-> 0, min_lon |-> 0, max_lon |-> 0]

(***************************************************************************)
(* DiskCache: has, read and write of one key from two threads              *)
(***************************************************************************)

\* std::ofstream f(path, std::ios::binary): the file at the final path is
\* created, or cut to length 0 if it exists
\* a variant of OpenedForWriting that leaves the file at the final path as it
\* is until the stream is closed (a temporary file renamed at the end)
OpenedAside(file) == file
OpenedForWriting(file) == [exists |-> TRUE, len |-> 0]

\* DiskCache::write up to the opening of the stream (ensure_dir succeeds)
DiskWriteOpen ==
    /\ dw_pc = "idle"
    /\ dw_pc' = "open"
    /\ disk_file' = OpenedForWriting(disk_file)
    /\ UNCHANGED <<dr_pc, dr_size, dr_data>>
    /\ UNCHANGED exceptDisk

\* the stream buffer is flushed to the file: some more of the bytes arrive
DiskWriteFlush(n) ==
    /\ dw_pc = "open"
    /\ disk_file.exists
    /\ disk_file.len + n <= FileLen
    /\ disk_file' = [disk_file EXCEPT !.len = @ + n]
    /\ UNCHANGED <<dw_pc, dr_pc, dr_size, dr_data>>
    /\ UNCHANGED exceptDisk

\* return f.good(), and the destructor of f: all the bytes are in the file
DiskWriteClose ==
    /\ dw_pc = "open"
    /\ dw_pc' = "idle"
    /\ disk_file' = [exists |-> TRUE, len |-> FileLen]
    /\ UNCHANGED <<dr_pc, dr_size, dr_data>>
    /\ UNCHANGED exceptDisk

\* acquire_hgt: if (m_cache.has(filename)); the reader goes on to read only
\* when the file exists
DiskHas ==
    /\ dr_pc = "idle"
    /\ dr_pc' = IF disk_file.exists THEN "has" ELSE "idle"
    /\ dr_data' = [done |-> FALSE, len |-> 0, read |-> 0]
    /\ UNCHANGED <<disk_file, dw_pc, dr_size>>
    /\ UNCHANGED exceptDisk

\* DiskCache::read: the stream is opened at the end, size = f.tellg();
\* if (size <= 0) return {}
DiskReadSize ==
    /\ dr_pc = "has"
    /\ IF disk_file.len <= 0
       THEN /\ dr_pc' = "idle"
            /\ dr_data' = [done |-> TRUE, len |-> 0, read |-> 0]
            /\ UNCHANGED dr_size
       ELSE /\ dr_pc' = "sized"
            /\ dr_size' = disk_file.len
            /\ UNCHANGED dr_data
    /\ UNCHANGED <<disk_file, dw_pc>>
    /\ UNCHANGED exceptDisk

Min(a, b) == IF a < b THEN a ELSE b

\* data(size); f.seekg(0); f.read(data.data(), size); return data: the
\* bytes the file has now, up to size; the rest of data stays zero
DiskReadData ==
    /\ dr_pc = "sized"
    /\ dr_pc' = "idle"
    /\ dr_data' = [done |-> TRUE, len |-> dr_size,
                   read |-> Min(dr_size, disk_file.len)]
    /\ dr_size' = 0
    /\ UNCHANGED <<disk_file, dw_pc>>
    /\ UNCHANGED exceptDisk

\* no file for the key, both threads outside of the cache
DiskInitState ==
    /\ disk_file = [exists |-> FALSE, len |-> 0]
    /\ dw_pc = "idle"
    /\ dr_pc = "idle"
    /\ dr_size = 0
    /\ dr_data = [done |-> FALSE, len |-> 0, read |-> 0]

\* the state the later sections add, as it is when nothing of them runs
MoreInitState ==
    /\ UploadInitState
    /\ TexInitState
    /\ ImgInitState
    /\ CompInitState
    /\ DsmInitState
    /\ DiskInitState

(***************************************************************************)
(* The CPU viewshed merge: compute_viewshed and the loops over the nodes   *)
(* of recompute_all_viewsheds and TileManager::apply_viewshed_overlays,    *)
(* followed at one pixel i                                                 *)
(***************************************************************************)

\* signal.assign(total, -999.0f), and the signal of the node's own cell
NoSignal == -999
OwnCellSignal == -60
\* the receiver sensitivity taken when the node gives none
DefaultRxSens == -132

\* the width of the elements of std::vector<uint8_t>
Uint8 == 256

\* where the pixel lies for a node: in the node's own cell, further than
\* max_range_cells, or at the end of a ray that is walked
CellKinds == {"own", "beyond", "ray"}
\* eirp - fspl - diff_loss_db at the pixel, and node.info.rx_sensitivity_dbm
Received == {-140, -125, -100}
RxSensitivities == {-120, 0}

\* compute_viewshed: visibility[i] and signal[i] of one node
compute_viewshed(cell, received, rx_sensitivity_dbm) ==
    LET rx_sens == IF rx_sensitivity_dbm >= 0 THEN DefaultRxSens
                   ELSE rx_sensitivity_dbm
    IN  IF cell = "own" THEN [vis |-> 1, sig |-> OwnCellSignal]
        ELSE IF cell = "beyond" THEN [vis |-> 0, sig |-> NoSignal]
        ELSE [vis |-> IF received >= rx_sens THEN 1 ELSE 0, sig |-> received]

\* the results one node can have at the pixel
NodeResults ==
    {compute_viewshed(cell, received, sens) :
        cell \in CellKinds, received \in Received, sens \in RxSensitivities}

\* scene.overlap_count[i]++ on a uint8_t
Increment(count) == (count + 1) % Uint8

GreaterOf(a, b) == IF a > b THEN a ELSE b

\* what the merge has seen of the nodes (history)
MergedNode(res) ==
    /\ visible_nodes' = visible_nodes + res.vis
    /\ node_sig_max' = GreaterOf(res.sig, node_sig_max)
    /\ node_vis_max' = GreaterOf(res.vis, node_vis_max)

\* one iteration of `for (auto& nd : scene.nodes)` in recompute_all_viewsheds
MergeSceneNode(res) ==
    /\ merge_loop = "scene"
    /\ visible_nodes + res.vis <= MaxVisibleNodes
    /\ IF res.vis # 0
       THEN /\ viewshed_vis' = 1
            /\ overlap_count' = Increment(overlap_count)
            /\ signal_strength' = IF res.sig > signal_strength THEN res.sig
                                  ELSE signal_strength
       ELSE UNCHANGED <<viewshed_vis, overlap_count, signal_strength>>
    /\ MergedNode(res)
    /\ UNCHANGED <<merge_loop, tr_viewshed, tr_signal>>
    /\ UNCHANGED <<loaderVars, loaderHist, cacheVars, cacheHist, mgrVars, gpuVars,
                   viewVars, moreVars>>

\* one iteration of `for (auto& nd : nodes)` in apply_viewshed_overlays, on
\* the tile's own part of the composite (extract_center_results copies)
MergeTileNode(res) ==
    /\ merge_loop = "tile"
    /\ visible_nodes + res.vis <= MaxVisibleNodes
    /\ IF res.vis # 0
       THEN /\ tr_viewshed' = 1
            /\ tr_signal' = IF res.sig > tr_signal THEN res.sig ELSE tr_signal
       ELSE UNCHANGED <<tr_viewshed, tr_signal>>
    /\ MergedNode(res)
    /\ UNCHANGED <<merge_loop, viewshed_vis, overlap_count, signal_strength>>
    /\ UNCHANGED <<loaderVars, loaderHist, cacheVars, cacheHist, mgrVars, gpuVars,
                   viewVars, moreVars>>

\* the arrays as both loops find them: assign(total, 0), assign(total, -999.0f)
MergeInitState(loop) ==
    /\ merge_loop = loop
    /\ viewshed_vis = 0
    /\ signal_strength = NoSignal
    /\ overlap_count = 0
    /\ tr_viewshed = 0
    /\ tr_signal = NoSignal
    /\ visible_nodes = 0
    /\ node_sig_max = NoSignal
    /\ node_vis_max = 0

(***************************************************************************)
(* HgtProvider::tiles_in_view. Latitudes and longitudes are in hundredths  *)
(* of a degree, so that a tile spans 100 and EDGE_THRESH is 15             *)
(***************************************************************************)

\* static constexpr double EDGE_THRESH = 0.15
EDGE_THRESH == 15

TileCoord(x, y) == [z |-> -1, x |-> x, y |-> y]

\* std::floor of a latitude or longitude, in degrees
floor(v) == v \div 100

latlon_to_hgt_coord(lat, lon) == TileCoord(floor(lon), floor(lat))

\* lat - std::floor(lat), with the correction for a negative result
frac(v) ==
    LET f == v - 100 * floor(v)
    IN  IF f < 0 THEN f + 100 ELSE f

near_low(f) == f < EDGE_THRESH
near_high_never(f) == FALSE
near_high(f) == f > 100 - EDGE_THRESH

\* if (lx < -180) lx += 360; if (lx >= 180) lx -= 360;
wrapped(lx) ==
    LET l1 == IF lx < -180 THEN lx + 360 ELSE lx
    IN  IF l1 >= 180 THEN l1 - 360 ELSE l1

tiles_in_view(lat, lon) ==
    LET center == latlon_to_hgt_coord(lat, lon)
        near_south == near_low(frac(lat))
        near_north == near_high(frac(lat))
        near_west == near_low(frac(lon))
        near_east == near_high(frac(lon))
        adj_lat == IF near_south THEN center.y - 1
                   ELSE IF near_north THEN center.y + 1 ELSE center.y
        adj_lon == IF near_west THEN center.x - 1
                   ELSE IF near_east THEN center.x + 1 ELSE center.x
        exists_lat == adj_lat >= -90 /\ adj_lat <= 89
        t1 == <<center>>
        t2 == IF (near_south \/ near_north) /\ exists_lat
              THEN Append(t1, TileCoord(center.x, adj_lat)) ELSE t1
        t3 == IF near_west \/ near_east
              THEN Append(t2, TileCoord(wrapped(adj_lon), center.y)) ELSE t2
    IN  IF (near_south \/ near_north) /\ (near_west \/ near_east) /\ exists_lat
        THEN Append(t3, TileCoord(wrapped(adj_lon), adj_lat)) ELSE t3

\* the camera positions tried: in the tiles at the south pole, at the north
\* pole, at both ends of the longitudes and in one tile away from them, on
\* both sides of each threshold; and the last latitude and longitude
Fractions == {0, 14, 16, 50, 84, 86, 90}
CameraLats == {100 * d + f : d \in {-90, 38, 89}, f \in Fractions} \cup {9000}
CameraLons == {100 * d + f : d \in {-180, -107, 179}, f \in Fractions} \cup {18000}

\* update_dynamic_tiles asks tiles_in_view for the camera at lat, lon
TilesInView(lat, lon) ==
    /\ cam_lat' = lat
    /\ cam_lon' = lon
    /\ view_needed' = tiles_in_view(lat, lon)
    /\ UNCHANGED <<loaderVars, loaderHist, cacheVars, cacheHist, mgrVars, gpuVars,
                   mergeVars, moreVars>>

ViewInitState(lat, lon) ==
    /\ cam_lat = lat
    /\ cam_lon = lon
    /\ view_needed = tiles_in_view(lat, lon)

\* the scene arrays before a merge, and the camera of the example
SceneInitState ==
    /\ MergeInitState("scene")
    /\ ViewInitState(3850, -10650)
    /\ MoreInitState

\* ---- the merge loops alone: any list of node results, in any order
MergeInit ==
    /\ LoaderInitState
    /\ CacheInitState(DEFAULT_MAX_TILES)
    /\ MgrInitState(NullProvider)
    /\ EngineInitState
    /\ OrchInitState
    /\ \E loop \in {"scene", "tile"} : MergeInitState(loop)
    /\ ViewInitState(3850, -10650)
    /\ MoreInitState

MergeNext ==
    \/ \E res \in NodeResults : MergeSceneNode(res)
    \/ \E res \in NodeResults : MergeTileNode(res)

MergeSpec == MergeInit /\ [][MergeNext]_vars

\* ---- TileCache::upload on a cache of any max_tiles, the values 0 and -1
\* ---- among them; the loop of a call runs on as long as its test holds
UploadLoopInit ==
    /\ LoaderInitState
    /\ \E max \in -1..MaxCapacity : CacheInitState(max)
    /\ MgrInitState(NullProvider)
    /\ EngineInitState
    /\ OrchInitState
    /\ SceneInitState

UploadLoopNext ==
    \/ \E c \in CacheKeys : UploadCall(c)
    \/ UploadWhile

UploadLoopFairSpec ==
    UploadLoopInit /\ [][UploadLoopNext]_vars /\ WF_vars(UploadWhile)

\* ---- the textures of one GpuViewshed through uploads of grids of several
\* ---- sizes, shutdown and the destructor
TexInit ==
    /\ LoaderInitState
    /\ CacheInitState(DEFAULT_MAX_TILES)
    /\ MgrInitState(NullProvider)
    /\ EngineInitState
    /\ OrchInitState
    /\ SceneInitState

TexNext ==
    \/ \E rows \in GridRows : TexUploadElevation(rows)
    \/ TexShutdown
    \/ TexDestructor
    \/ TexOtherOwner

TexSpec == TexInit /\ [][TexNext]_vars

\* ---- the imagery source of a tile manager while tiles arrive
ImgInit ==
    /\ LoaderInitState
    /\ CacheInitState(DEFAULT_MAX_TILES)
    /\ MgrInitState(NullProvider)
    /\ EngineInitState
    /\ OrchInitState
    /\ SceneInitState

ImgNext ==
    \/ CycleImagerySource
    \/ \E src \in ImagerySource : SetImagerySource(src)
    \/ \E provider \in {"null", "satellite", "street"} :
          SetImageryProvider(provider)
    \/ \E c \in CacheKeys : ImgTileUploaded(c)
    \/ \E missed \in SUBSET CacheKeys : EnsureImageryTiles(missed)
    \/ ApplyViewshedOverlays

ImgSpec == ImgInit /\ [][ImgNext]_vars

\* ---- composites of one center tile for every content of its neighbourhood
CompInit ==
    /\ LoaderInitState
    /\ CacheInitState(DEFAULT_MAX_TILES)
    /\ MgrInitState(NullProvider)
    /\ EngineInitState
    /\ OrchInitState
    /\ SceneInitState

CompNext ==
    \/ \E o \in Offsets : \E kind \in NbKinds : NeighbourBecomes(o, kind)
    \/ \E z \in CenterZs : CenterBecomes(z)
    \/ BuildComposite
    \/ \E kind \in ResultKinds : ExtractCenter(kind)
    \/ CompositeDone

CompSpec == CompInit /\ [][CompNext]_vars

\* ---- DSM coordinates of a range of positions
DsmInit ==
    /\ LoaderInitState
    /\ CacheInitState(DEFAULT_MAX_TILES)
    /\ MgrInitState(NullProvider)
    /\ EngineInitState
    /\ OrchInitState
    /\ SceneInitState

DsmNext == \E lat \in DsmLats : \E lon \in DsmLons : LatLonToDsmCoord(lat, lon)

DsmSpec == DsmInit /\ [][DsmNext]_vars

\* ---- one thread writing a key of the disk cache, another reading it
DiskInit ==
    /\ LoaderInitState
    /\ CacheInitState(DEFAULT_MAX_TILES)
    /\ MgrInitState(NullProvider)
    /\ EngineInitState
    /\ OrchInitState
    /\ SceneInitState

DiskNext ==
    \/ DiskWriteOpen
    \/ \E n \in 1..FileLen : DiskWriteFlush(n)
    \/ DiskWriteClose
    \/ DiskHas
    \/ DiskReadSize
    \/ DiskReadData

DiskSpec == DiskInit /\ [][DiskNext]_vars

\* ---- tiles_in_view alone, the camera moving from the position of the
\* ---- example to any position and from there to any other
ViewInit ==
    /\ LoaderInitState
    /\ CacheInitState(DEFAULT_MAX_TILES)
    /\ MgrInitState(NullProvider)
    /\ EngineInitState
    /\ OrchInitState
    /\ MergeInitState("scene")
    /\ ViewInitState(3850, -10650)
    /\ MoreInitState

ViewNext == \E lat \in CameraLats, lon \in CameraLons : TilesInView(lat, lon)

ViewSpec == ViewInit /\ [][ViewNext]_vars

\* ---- the AsyncLoader alone, driven through its public interface; the
\* ---- provider of a request is the manager's provider (1) or a null pointer
LoaderInit ==
    /\ LoaderInitState
    /\ CacheInitState(DEFAULT_MAX_TILES)
    /\ MgrInitState(1)
    /\ EngineInitState
    /\ OrchInitState
    /\ SceneInitState

LoaderMain ==
    \/ Start
    \/ StopStore
    \/ StopNotify
    \/ StopJoin
    \/ \E c \in Coords, p \in {NullProvider, 1} : Request(c, p)
    \/ \E c \in Coords : IsPending(c)
    \/ PollPop
    \/ PollErase
    \/ ClearPending

LoaderNext ==
    \/ LoaderMain
    \/ Worker
    \/ WorkerSpuriousWakeup

LoaderSpec == LoaderInit /\ [][LoaderNext]_vars

\* ---- the TileCache alone
CacheInit ==
    /\ LoaderInitState
    /\ \E max \in 1..MaxCapacity : CacheInitState(max)
    /\ MgrInitState(NullProvider)
    /\ EngineInitState
    /\ OrchInitState
    /\ SceneInitState

CacheNext ==
    \/ \E c \in CacheKeys : Upload(c)
    \/ \E c \in CacheKeys : Get(c)
    \/ \E c \in CacheKeys : Touch(c)
    \/ \E c \in CacheKeys : Evict(c)
    \/ Clear

CacheSpec == CacheInit /\ [][CacheNext]_vars

\* ---- the TileCache with the overlay textures of its tiles
TileGpuNext ==
    \/ CacheNext
    \/ \E c \in CacheKeys : UploadOverlayTextures(c)
    \/ \E c \in CacheKeys : DestroyOverlayTextures(c)

TileGpuSpec == CacheInit /\ [][TileGpuNext]_vars

\* ---- the tile system: the TileManager with its loader and its cache, driven
\* ---- by the main thread through the manager's interface
Init ==
    /\ LoaderInitState
    /\ CacheInitState(DEFAULT_MAX_TILES)
    /\ MgrInitState(NullProvider)
    /\ EngineInitState
    /\ OrchInitState
    /\ SceneInitState

Next ==
    \/ SetHgtProvider
    \/ SetElevationProvider
    \/ StartLoader
    \/ StopLoader
    \/ StopNotify
    \/ StopJoin
    \/ UpdateBegin
    \/ \E c \in Coords : DynVisit(c)
    \/ \E c \in Coords : ElevVisit(c)
    \/ LoopDone
    \/ DrainPoll
    \/ DrainUpload
    \/ ClearBegin
    \/ ClearEnd
    \/ Worker
    \/ WorkerSpuriousWakeup

Spec == Init /\ [][Next]_vars

\* ---- the GpuViewshed engine alone: its asynchronous interface on grids of
\* ---- every size, and its whole interface on the grid of one tile
EngineInit ==
    /\ LoaderInitState
    /\ CacheInitState(DEFAULT_MAX_TILES)
    /\ MgrInitState(NullProvider)
    /\ EngineInitState
    /\ OrchInitState
    /\ SceneInitState

EngineNext ==
    \/ EngInit
    \/ \E rows \in GridRows : UploadElevation(rows)
    \/ \E n \in 0..MaxNodes : ComputeAllAsync(n)
    \/ PollState
    \/ ReadBackAsync

EngineSpec == EngineInit /\ [][EngineNext]_vars

ShaderNext ==
    \/ EngInit
    \/ \E model \in PropModels : SetPropagationModel(model)
    \/ UploadElevation(TileRows)
    \/ \E n \in 0..MaxNodes : ComputeAll(n)
    \/ \E n \in 0..MaxNodes : ComputeAllAsync(n)
    \/ PollState
    \/ ReadBackAsync

ShaderSpec == EngineInit /\ [][ShaderNext]_vars

\* ---- the viewshed orchestrator with its engine and the tile cache: the
\* ---- engine is initialised (no optional shader), k tiles are resident, and
\* ---- tiles leave the cache while the viewshed is computed
RECURSIVE Resident(_, _)
Resident(k, max) ==
    IF k = 0 THEN [lru |-> <<>>, map |-> {}]
    ELSE upload(Resident(k - 1, max), k, max)

VsInit ==
    /\ LoaderInitState
    /\ MgrInitState(NullProvider)
    /\ \E k \in 1..MaxCapacity :
          /\ m_max_tiles = MaxCapacity
          /\ m_lru = Resident(k, MaxCapacity).lru
          /\ m_map = Resident(k, MaxCapacity).map
          /\ overlay_tex = {}
          /\ gl_live = k
          /\ recent = [i \in 1..k |-> k + 1 - i]
          /\ uploaded_keys = [i \in 1..k |-> i]
          /\ removed_by_call = FALSE
    /\ m_initialized = TRUE
    /\ m_has_itm = FALSE
    /\ m_has_fresnel = FALSE
    /\ m_prop_model = "ITM"
    /\ EngineAsyncInitState
    /\ OrchInitState
    /\ SceneInitState

VsNext ==
    \/ \E n \in 0..MaxNodes : KickViewshedGpu(n)
    \/ PollViewshedGpu
    \/ \E c \in CacheKeys : Evict(c)

VsSpec == VsInit /\ [][VsNext]_vars

\* poll_viewshed_gpu is called every frame, and a fence polled again and
\* again is found signalled at last
VsFairSpec == VsSpec /\ WF_vars(PollViewshedGpuSignalled)

\* ---- the AsyncLoader under fair scheduling: the worker thread gets to run
\* ---- (a fetch_tile in progress returns) and a stop() that has begun goes on;
\* ---- nothing obliges a condition variable to wake up spuriously
LoaderFairSpec ==
    /\ LoaderSpec
    /\ WF_vars(Worker)
    /\ WF_vars(StopNotify)
    /\ WF_vars(StopJoin)

(***************************************************************************)
(* Claims about the AsyncLoader                                            *)
(***************************************************************************)

RECURSIVE RidSeq(_)
RidSeq(q) == IF q = <<>> THEN <<>> ELSE <<Head(q).rid>> \o RidSeq(Tail(q))

\* the step is poll_result's erase of the coord of the result it drained
DrainedByPoll(c) ==
    main_pc = "poll_erase" /\ main_pc' = "idle" /\ out.coord = c

\* the step is the worker's erase after fetch_tile(c) failed
FailedAtWorker(c) ==
    /\ w_pc = "fetched" /\ w_pc' = "loop"
    /\ w_result = NoTileData /\ w_req.coord = c

\* the step is the worker's erase for a request whose provider is null
SkippedAtWorker(c) ==
    /\ w_pc = "check_provider" /\ w_pc' = "loop"
    /\ w_req.provider = NullProvider /\ w_req.coord = c

\* the step is a clear_pending() call
ClearedByCall ==
    /\ main_pc = "idle" /\ main_pc' = "idle" /\ w_pc' = w_pc
    /\ m_pending_set' = {} /\ m_requests' = <<>>

\* C1 as stated: an entry leaves the pending set only when poll_result drains
\* the result of its coord or when the worker observed a failed fetch of it.
C1_OnlyDrainOrFailure ==
    [][\A c \in m_pending_set \ m_pending_set' :
          DrainedByPoll(c) \/ FailedAtWorker(c)]_vars

\* C1 amended: an entry leaves the pending set only when poll_result drains the
\* result of its coord, when the worker observed a failed fetch of it or skipped
\* its request because the provider is null, or when clear_pending() empties
\* the set.
C1_RemovalPaths ==
    [][\A c \in m_pending_set \ m_pending_set' :
          \/ DrainedByPoll(c)
          \/ FailedAtWorker(c)
          \/ SkippedAtWorker(c)
          \/ ClearedByCall]_vars

\* a result has been drained and its coord has left the pending set, after a
\* clear_pending() that dropped a queued request
C1_Witness ==
    /\ main_pc = "idle"
    /\ polled # <<>>
    /\ out.coord \notin m_pending_set
    /\ dropped # {}

Queued == {m_requests[i].coord : i \in DOMAIN m_requests}
InFlight == IF w_pc \in InFlightPcs THEN {w_req.coord} ELSE {}
Undrained ==
    {m_results[i].coord : i \in DOMAIN m_results}
        \cup (IF main_pc = "poll_erase" THEN {out.coord} ELSE {})

\* C2: the pending set is exactly the set of coords that are queued, with the
\* worker (being fetched), or fetched successfully and not yet drained by
\* poll_result (a poll_result that has popped the result and not yet erased
\* the coord counts as not yet drained).
C2_PendingExact == m_pending_set = Queued \cup InFlight \cup Undrained

\* C3 as stated: the request(c, p) calls made since the result of c was last
\* drained produce at most one call of fetch_tile(c), whatever their number
\* (stated here for the runs in which clear_pending() removed nothing).
C3_OneFetch ==
    (dropped = {} /\ survived = {}) => \A c \in Coords : fetch_calls[c] <= 1

\* C3 amended: request is a no-op while c is in the pending set, so the
\* request(c, p) calls made since the main thread last removed c from the
\* pending set produce one call of fetch_tile(c), and one more only for every
\* time the worker erased c from the pending set in between (a failed fetch,
\* a null provider).
C3_OneFetchPerRemoval ==
    \A c \in Coords : fetch_calls[c] <= 1 + worker_erased[c]

\* request(c, p) has been ignored for a pending coord, and c is fetched a
\* second time after its first fetch failed
C3_Witness ==
    /\ req_ignored
    /\ \E c \in Coords :
          /\ fetch_calls[c] = 2 /\ worker_erased[c] = 1
          /\ w_pc = "fetch" /\ w_req.coord = c

\* C4: the results the worker pushed are handed out by poll_result in the
\* order of their arrival, each once and none lost: what was pushed is what
\* was polled followed by what is still queued, and no result is pushed twice.
C4_ArrivalOrder ==
    /\ pushed = polled \o RidSeq(m_results)
    /\ \A i, j \in DOMAIN pushed : i # j => pushed[i] # pushed[j]
    /\ polled # <<>> => out.rid = polled[Len(polled)]

\* two results have been pushed by the worker and handed out by poll_result
C4_Witness == Len(pushed) >= 2 /\ Len(polled) >= 2 /\ main_pc = "idle"

\* C5: once stop() has cleared m_running, the worker leaves its loop and the
\* join in stop() returns.
C5_StopJoins == (main_pc = "stop_notify") ~> (main_pc = "idle" /\ w_pc = "exited")

\* the ways fetch_tile fails: a null return, a throw
Failures == {"nullopt", "std_exception", "other_exception"}

\* C6: a fetch_tile that returns nullopt or throws does not leave the worker:
\* the call ends at the worker's "if (result)" with an empty result, no result
\* is queued for it, its coord leaves the pending set, and the worker is back
\* at the top of its loop.
C6_FailureContained ==
    [][/\ (w_pc = "fetch" /\ w_pc' # w_pc /\ w_outcome' \in Failures) =>
             /\ w_pc' = "fetched"
             /\ w_result' = NoTileData
       /\ (w_pc = "fetched" /\ w_outcome \in Failures /\ w_pc' # w_pc) =>
             /\ w_pc' = "loop"
             /\ w_req.coord \notin m_pending_set'
             /\ m_results' = m_results
             /\ pushed' = pushed]_vars

\* after a failed fetch of c a later request(c, p) was enqueued and is being
\* fetched, and no result has been delivered
C6_Witness ==
    /\ pushed = <<>>
    /\ \E c \in Coords :
          /\ fetch_calls[c] = 2
          /\ w_pc = "fetch" /\ w_req.coord = c /\ c \in m_pending_set

\* C7: clear_pending() empties the queue, so that fetch_tile is never called
\* for a request that was queued when it ran, and it leaves the request the
\* worker holds, the worker and the queued results as they are.
C7_ClearDropsQueuedOnly ==
    [][/\ ClearedByCall =>
             /\ w_req' = w_req /\ w_result' = w_result
             /\ m_results' = m_results
       /\ w_pc' \in InFlightPcs => w_req'.rid \notin dropped'
       /\ \A i \in DOMAIN pushed' : pushed'[i] \notin dropped'
       /\ survived' \cap dropped' = {}]_vars

\* a request was dropped by clear_pending(), and the result of a fetch that was
\* in flight during that call has been handed out by poll_result
C7_Witness ==
    /\ dropped # {}
    /\ \E i \in DOMAIN polled : polled[i] \in survived

\* C8: while the worker executes fetch_tile it holds neither m_req_mutex nor
\* m_result_mutex.
C8_NoMutexDuringFetch ==
    w_pc = "fetch" => (req_mutex = "free" /\ result_mutex = "free")

\* during a fetch another request is queued behind it and both mutexes are free
C8_Witness ==
    /\ w_pc = "fetch"
    /\ m_requests # <<>>
    /\ req_mutex = "free"
    /\ result_mutex = "free"

(***************************************************************************)
(* Claims about the TileManager                                            *)
(***************************************************************************)

\* the requests that are queued or with the worker
Outstanding ==
    {m_requests[i] : i \in DOMAIN m_requests}
        \cup (IF w_pc \in InFlightPcs THEN {w_req} ELSE {})

\* C9: every queued or in-flight request with a provider points to a provider
\* the TileManager still owns, so the worker never calls fetch_tile on a
\* destroyed provider.
C9_ProviderOutlivesRequest ==
    \A r \in Outstanding : r.provider # NullProvider => r.provider \in alive

(***************************************************************************)
(* Claims about the TileCache                                              *)
(***************************************************************************)

\* the n most recently touched keys
MostRecent(n) == {recent[i] : i \in 1..n}

\* the cache holds exactly m_max_tiles entries, the most recently touched ones
FullOfMostRecent ==
    /\ Cardinality(Cached) = m_max_tiles
    /\ Len(recent) >= m_max_tiles
    /\ MostRecent(m_max_tiles) \subseteq Cached

\* C10 as stated: after any sequence of operations in which more than capacity
\* distinct keys were uploaded, the cache holds exactly capacity entries and
\* the capacity most recently touched keys are all present.
C10_LruCorrect ==
    Len(uploaded_keys) > m_max_tiles => FullOfMostRecent

\* C10 amended: the cache never holds more than capacity entries; and after
\* any sequence of upload, get and touch (no evict, no clear) in which more
\* than capacity distinct keys were uploaded, it holds exactly capacity
\* entries and the capacity most recently touched keys are all present.
C10_LruCorrectWithoutRemoval ==
    /\ Cardinality(Cached) <= m_max_tiles
    /\ (~removed_by_call /\ Len(uploaded_keys) > m_max_tiles)
          => FullOfMostRecent

\* a cache of more than one entry is full after more keys than its capacity
\* were uploaded, and the key evicted is not the one uploaded first: a get or
\* a touch had moved that one to the front
C10_Witness ==
    /\ ~removed_by_call
    /\ m_max_tiles > 1
    /\ Len(uploaded_keys) > m_max_tiles
    /\ Cardinality(Cached) = m_max_tiles
    /\ uploaded_keys[1] \in Cached
    /\ uploaded_keys[2] \notin Cached

\* the coords the LRU list carries
ListCoords == {m_lru[i].coord : i \in DOMAIN m_lru}

\* C11: the LRU list and the map hold the same set of coords, the list carries
\* no coord twice (and no node twice), and the list iterator stored in every
\* map entry designates the list node that carries the entry's own coord.
C11_ListMapConsistent ==
    /\ ListCoords = Cached
    /\ \A i, j \in DOMAIN m_lru :
          i # j => (m_lru[i].coord # m_lru[j].coord /\ m_lru[i].node # m_lru[j].node)
    /\ \A e \in m_map :
          \E i \in DOMAIN m_lru : m_lru[i].node = e.lru_it /\ m_lru[i].coord = e.coord

\* after an evict or a clear the cache holds two entries again, and the key
\* uploaded first is at the front of the list: it was moved or uploaded again
C11_Witness ==
    /\ removed_by_call
    /\ Len(m_lru) >= 2
    /\ Len(uploaded_keys) >= 2
    /\ m_lru[1].coord = uploaded_keys[1]

\* the GL objects the cached tiles own
OwnedGl == Cardinality(Cached) + 2 * Cardinality(overlay_tex)

\* C12: every GL object that is allocated is owned by a cached tile: the
\* handles of a destroyed TileRenderable, its overlay textures included, have
\* been released.
C12_HandlesReleased == gl_live = OwnedGl


(***************************************************************************)
(* C13: the engine's state changes only along IDLE -> DISPATCHED -> READY  *)
(* -> IDLE: it becomes READY only from DISPATCHED and only in a step of    *)
(* poll_state (so never in compute_all_async and never straight from       *)
(* IDLE), it becomes IDLE only in a step of read_back_async, and it        *)
(* becomes DISPATCHED only in a step of compute_all_async.                 *)
(***************************************************************************)
C13_StateMachine ==
    [][ /\ (m_state' = "READY" /\ m_state # "READY")
            => (m_state = "DISPATCHED" /\ PollState)
        /\ (m_state' = "IDLE" /\ m_state # "IDLE") => ReadBackAsync
        /\ (m_state' = "DISPATCHED" /\ m_state # "DISPATCHED")
            => \E n \in 1..MaxNodes : ComputeAllAsync(n) ]_vars

\* a whole cycle was made: dispatched, polled to READY, read back
C13_Witness ==
    /\ m_state = "IDLE" /\ kick_nodes >= 1 /\ polls >= 2
    /\ ~early_readback /\ ~m_fence


(***************************************************************************)
(* C14: fence discipline.  After any sequence of calls to the engine,      *)
(* exactly one fence is outstanding while the state is DISPATCHED and none *)
(* while it is IDLE or READY, no fence object is alive besides m_fence,    *)
(* and no fence is left in the command queue without a flush.              *)
(***************************************************************************)
C14_FenceDiscipline ==
    /\ m_state = "DISPATCHED" => (m_fence /\ gl_syncs = 1)
    /\ m_state \in {"IDLE", "READY"} => (~m_fence /\ gl_syncs = 0)
    /\ ~gl_fence_queued

\* C14 as the code has it: read_back_async does not look at the state, so a
\* readback made while DISPATCHED leaves the engine IDLE with its fence; the
\* fence stays the only one and the next compute_all_async deletes it
C14_FenceDisciplineUnlessEarlyReadback ==
    /\ m_state = "DISPATCHED" => (m_fence /\ gl_syncs = 1)
    /\ m_state = "READY" => (~m_fence /\ gl_syncs = 0)
    /\ (m_state = "IDLE" /\ ~early_readback) => (~m_fence /\ gl_syncs = 0)
    /\ gl_syncs = (IF m_fence THEN 1 ELSE 0)
    /\ ~gl_fence_queued

\* a compute_all_async issued while DISPATCHED was polled to READY
C14_Witness == rekicked /\ m_state = "READY" /\ polls >= 2


\* the row-bands of a grid of rows rows: ceil(rows / ROWS_PER_CHUNK)
Bands(rows) == (rows + ROWS_PER_CHUNK - 1) \div ROWS_PER_CHUNK

\* the polls a compute of kick_nodes nodes needs on the current grid: one per
\* row-band and one for the merge, for every node
TotalPolls == kick_nodes * (Bands(m_rows) + 1)

\* the signalled polls that lead to the engine's position in the chunk
\* state machine
ChunkPosition ==
    m_chunk.current_node * (Bands(m_rows) + 1) + m_chunk.current_row \div ROWS_PER_CHUNK

(***************************************************************************)
(* C15: engine progress.  After a compute_all_async with N >= 1 nodes on a *)
(* grid of R rows that is not resized meanwhile, the engine is READY       *)
(* exactly when N * (ceil(R/128) + 1) polls have found their fence         *)
(* signalled; before that it is DISPATCHED, with every signalled poll one  *)
(* step further in the chunk state machine and the other polls changing    *)
(* nothing.                                                                *)
(***************************************************************************)
C15_EngineProgress ==
    (kick_nodes >= 1 /\ ~grid_changed) =>
        /\ m_state = "DISPATCHED" => (polls < TotalPolls /\ polls = ChunkPosition)
        /\ m_state = "READY" => polls = TotalPolls

\* the largest compute on a grid of more than one band has reached READY
C15_Witness ==
    /\ m_state = "READY" /\ ~grid_changed
    /\ kick_nodes = MaxNodes /\ m_rows > ROWS_PER_CHUNK


(***************************************************************************)
(* C19: a refused set_propagation_model call leaves the selection as it    *)
(* was, the selection is never a variant that was refused (FRESNEL is      *)
(* selected only with its shader loaded; ITM without its shader only as    *)
(* the constructor's default), and every shader a compute dispatches is    *)
(* one that init has loaded: the selected one when it is loaded, else FSPL.*)
(***************************************************************************)
C19_ShaderFallback ==
    [][ /\ refused_keep' # "none" => m_prop_model' = refused_keep'
        /\ m_prop_model' = "FRESNEL" => m_has_fresnel'
        /\ (m_prop_model' = "ITM" /\ ~m_has_itm') => m_prop_model = "ITM"
        /\ last_shader' \in Loaded \cup {"none"}
        /\ (m_state' = "DISPATCHED" /\ m_chunk'.nodes # 0)
              => m_chunk'.active_shader \in Loaded
        /\ (\E n \in 1..MaxNodes : ComputeAll(n) \/ ComputeAllAsync(n))
              => \/ last_shader' = last_shader /\ (~m_initialized \/ m_rows = 0)
                 \/ last_shader' = (IF m_prop_model \in Loaded
                                    THEN m_prop_model ELSE "FSPL") ]_vars

\* ITM was asked for and refused, and a compute has since dispatched the
\* shader of the retained selection
C19_Witness ==
    /\ m_initialized /\ ~m_has_itm /\ m_has_fresnel
    /\ refused_keep = "FRESNEL" /\ last_shader = "FRESNEL"
    /\ m_state = "DISPATCHED"


(***************************************************************************)
(* C16: whatever tiles are evicted between the last kick_viewshed_gpu      *)
(* (with at least one node, the engine at work) and the readbacks,         *)
(* repeated poll_viewshed_gpu calls with fences that signal bring the      *)
(* orchestrator to idle.                                                   *)
(***************************************************************************)
C16_EvictionNeverBlocks ==
    (tvs_active /\ kicks = MaxKicks /\ vs_nodes >= 1 /\ m_state # "IDLE")
        ~> ~tvs_active


\* the overlay a completed viewshed gives the tile of c: computed for c, on
\* the composite of c and its resident neighbours, with the nodes of the
\* last kick
ExpectedOverlay(c) ==
    [tile |-> c, nbrs |-> Neighbours(m_map, c), nodes |-> vs_nodes]

(***************************************************************************)
(* C17: whenever the orchestrator is idle after a kick_viewshed_gpu whose  *)
(* tiles are all still resident, every tile holds the overlay of the last  *)
(* kick's nodes on its own composite, whether that kick was the only one   *)
(* or came in the middle of an outstanding compute (engine DISPATCHED or   *)
(* READY, any number of tiles read back): the final overlays do not depend *)
(* on what was outstanding when the kick was made.                         *)
(***************************************************************************)
C17_RekickSameOverlays ==
    (~tvs_active /\ tvs_tile_list # <<>> /\ SeqToSet(tvs_tile_list) = Cached)
        => \A c \in Cached :
              c \in overlay_tex /\ tile_overlay[c] = ExpectedOverlay(c)

\* a kick made in the middle of a compute of two tiles has completed
C17_Witness ==
    /\ rekick_mid /\ ~tvs_active /\ vs_nodes >= 1
    /\ Len(tvs_tile_list) >= 2 /\ SeqToSet(tvs_tile_list) = Cached
    /\ \A c \in Cached : tile_overlay[c] = ExpectedOverlay(c)


\* ---- C18 ---------------------------------------------------------------
\* what the loop that runs has accumulated at the pixel
MergedSignal == IF merge_loop = "scene" THEN signal_strength ELSE tr_signal
MergedVisibility == IF merge_loop = "scene" THEN viewshed_vis ELSE tr_viewshed
SaturatedCount == IF visible_nodes > Uint8 - 1 THEN Uint8 - 1 ELSE visible_nodes

\* C18: after the results of any list of nodes have been merged at a pixel,
\* the merged signal is at least every merged node's signal, the merged
\* visibility is at least every merged node's visibility, and the overlap
\* count is the number of nodes visible at the pixel, saturating at 255.
C18_OverlayAccumulation ==
    /\ MergedSignal >= node_sig_max
    /\ MergedVisibility >= node_vis_max
    /\ merge_loop = "scene" => overlap_count = SaturatedCount


\* ---- C20 ---------------------------------------------------------------
\* the tile the camera is in, its distance from the tile's edges being
\* within 15% of the tile, and the tiles asked for beside the camera's
CameraTile == TileCoord(floor(cam_lon), floor(cam_lat))
WithinEdge(v) == frac(v) < 15 \/ 100 - frac(v) < 15
ViewSet == SeqToSet(view_needed)
LatNeighbours == {t \in ViewSet : t.x = CameraTile.x /\ t.y # CameraTile.y}
LonNeighbours == {t \in ViewSet : t.x # CameraTile.x /\ t.y = CameraTile.y}
Diagonals == {t \in ViewSet : t.x # CameraTile.x /\ t.y # CameraTile.y}
\* the row next to the camera's on the side of the edge the camera is near
AdjacentRow == IF frac(cam_lat) < 15 THEN CameraTile.y - 1 ELSE CameraTile.y + 1
RowExists == AdjacentRow >= -90 /\ AdjacentRow <= 89
ExampleOfCrossing ==
    /\ (cam_lat = 3850 /\ cam_lon = -10650) => ViewSet = {TileCoord(-107, 38)}
    /\ (cam_lat = 3890 /\ cam_lon = -10650)
        => ViewSet = {TileCoord(-107, 38), TileCoord(-107, 39)}
WorkingSet ==
    /\ CameraTile \in ViewSet
    /\ Cardinality(ViewSet) = Len(view_needed)
    /\ Len(view_needed) \in {1, 2, 4}
    /\ Cardinality(LatNeighbours) <= 1
    /\ Cardinality(LonNeighbours) <= 1
    /\ Cardinality(Diagonals) <= 1
    /\ \A t \in LatNeighbours \cup Diagonals : t.y = AdjacentRow

\* C20 as stated: for every camera position the tiles in view hold the
\* camera's tile and are 1, 2 or 4 distinct tiles; the latitude neighbour is
\* there exactly when the camera is within 15% of the north or south edge,
\* the longitude neighbour exactly when within 15% of the east or west edge,
\* the diagonal neighbour exactly when both; and the example of the crossing.
C20_TilesInView ==
    /\ WorkingSet
    /\ LatNeighbours # {} <=> WithinEdge(cam_lat)
    /\ LonNeighbours # {} <=> WithinEdge(cam_lon)
    /\ Diagonals # {} <=> (WithinEdge(cam_lat) /\ WithinEdge(cam_lon))
    /\ ExampleOfCrossing

\* C20, as the code has it: the latitude neighbour and the diagonal neighbour
\* are there exactly when, besides, the adjacent row exists (-90..89); the
\* rest as stated.
C20_TilesInViewWhereRowExists ==
    /\ WorkingSet
    /\ LatNeighbours # {} <=> (WithinEdge(cam_lat) /\ RowExists)
    /\ LonNeighbours # {} <=> WithinEdge(cam_lon)
    /\ Diagonals # {} <=> (WithinEdge(cam_lat) /\ WithinEdge(cam_lon) /\ RowExists)
    /\ ExampleOfCrossing

\* the camera near the north edge and the west edge of a tile away from the
\* poles: the camera's tile, both neighbours and the diagonal neighbour
C20_Witness ==
    /\ cam_lat = 3890 /\ cam_lon = -10686
    /\ Len(view_needed) = 4
    /\ ViewSet = {TileCoord(-107, 38), TileCoord(-107, 39),
                  TileCoord(-108, 38), TileCoord(-108, 39)}


\* ---- C27 ---------------------------------------------------------------
\* the orchestrator with every tile staying resident: kicks with any node
\* list, the empty one included, and a poll every frame
VsResidentNext ==
    \/ \E n \in 0..MaxNodes : KickViewshedGpu(n)
    \/ PollViewshedGpu

VsResidentFairSpec ==
    VsInit /\ [][VsResidentNext]_vars /\ WF_vars(PollViewshedGpuSignalled)

\* C27: every kick_viewshed_gpu that leaves the orchestrator running is
\* followed at last by the orchestrator being idle, for every node list and
\* with no eviction, when poll_viewshed_gpu is called every frame and every
\* fence signals at last.
C27_KickBecomesIdle == tvs_active ~> ~tvs_active


\* ---- C28 ---------------------------------------------------------------
\* the orchestrator while tiles stream in and out of the cache: between two
\* frames' polls the manager uploads tiles the loader delivers and tiles
\* leave the cache; every kick is for the whole node list
VsStreamNext ==
    \/ KickViewshedGpu(MaxNodes)
    \/ PollViewshedGpu
    \/ \E c \in CacheKeys : Evict(c)
    \/ \E c \in CacheKeys : Upload(c)

VsStreamSpec == VsInit /\ [][VsStreamNext]_vars

\* C28: the result poll_viewshed_gpu reads back into a tile was computed
\* from the composite dispatched for that tile; a READY left over from a
\* tile that was passed over is never written into another tile.
C28_ReadbackOfSameTile ==
    \A c \in Cached \cap overlay_tex : tile_overlay[c].tile = c


\* ---- C26 ---------------------------------------------------------------
\* what the j-th dispatch of a compute must be, given the one before it: the
\* first band of node 0 starts at row 0; a band follows a band of the same
\* node that stopped short of the grid, and starts where it stopped; the
\* merge of a node follows the node's band that reached the last row; the
\* first band of the next node follows the merge
InOrder(log, j) ==
    LET x == log[j]
    IN  /\ x.node < kick_nodes
        /\ x.kind = "band" => (x.row_start < x.row_end /\ x.row_end <= m_rows)
        /\ IF j = 1
           THEN x.kind = "band" /\ x.node = 0 /\ x.row_start = 0
           ELSE LET p == log[j - 1]
                IN  IF x.kind = "merge"
                    THEN p.kind = "band" /\ p.node = x.node /\ p.row_end = m_rows
                    ELSE IF p.kind = "band"
                         THEN /\ x.node = p.node
                              /\ x.row_start = p.row_end
                              /\ p.row_end < m_rows
                         ELSE x.node = p.node + 1 /\ x.row_start = 0

DispatchesInOrder ==
    (kick_nodes >= 1 /\ ~grid_changed) =>
        /\ \A j \in 1..Len(dispatch_log) : InOrder(dispatch_log, j)
        /\ m_state = "DISPATCHED" => dispatch_log # <<>>
        /\ m_state = "READY" =>
              /\ dispatch_log # <<>>
              /\ dispatch_log[Len(dispatch_log)].kind = "merge"
              /\ dispatch_log[Len(dispatch_log)].node = kick_nodes - 1

\* a dispatch is made by compute_all_async (the first band) or by the
\* poll_state call that found the fence of the dispatch before it signalled
DispatchAfterFence ==
    Len(dispatch_log') > Len(dispatch_log) =>
        /\ Len(dispatch_log') = Len(dispatch_log) + 1
        /\ \/ Len(dispatch_log') = 1 /\ \E n \in 1..MaxNodes : ComputeAllAsync(n)
           \/ /\ dispatch_log # <<>>
              /\ SubSeq(dispatch_log', 1, Len(dispatch_log)) = dispatch_log
              /\ m_state = "DISPATCHED" /\ m_fence
              /\ PollState
              /\ polls' = polls + 1

\* C26: in the async path, for every node the row-bands are dispatched in
\* increasing row order, each after the fence of the one before has
\* signalled, and cover rows [0, R) exactly once; a node's merge is
\* dispatched after its last band, the next node's first band after that
\* merge, so the nodes are merged in the order of the list.
C26_BandOrder == [](DispatchesInOrder) /\ [][DispatchAfterFence]_vars

\* a compute of MaxNodes nodes on a grid of one full band and a band of one
\* row has run to READY
C26_Witness ==
    /\ m_state = "READY" /\ ~grid_changed
    /\ kick_nodes = MaxNodes /\ m_rows = ROWS_PER_CHUNK + 1
    /\ Len(dispatch_log) = 3 * MaxNodes
    /\ dispatch_log[2] = [kind |-> "band", node |-> 0,
                          row_start |-> ROWS_PER_CHUNK, row_end |-> ROWS_PER_CHUNK + 1]


\* ---- C29 ---------------------------------------------------------------
\* C29: TileCache::upload terminates for every max_tiles, 0 and negative
\* values included, and when it returns the uploaded coord is in the cache.
C29_UploadTerminates ==
    /\ \A c \in CacheKeys :
          (up_pc = "while" /\ up_coord = c) ~> (up_pc = "idle" /\ c \in Cached)


\* ---- C30 ---------------------------------------------------------------
\* C30: every texture name GpuViewshed creates is deleted once: after
\* destroy_textures the six texture members are zero, so that no later
\* shutdown, destructor or resize hands a deleted name to glDeleteTextures.
C30_TexturesDeletedOnce ==
    /\ tex_deleted_again = {}
    /\ tex_rows = 0 => m_tex = NoTextures

\* the engine never deletes a texture of another owner
OthersKeepTheirTextures == tex_others \subseteq gl_tex_names


\* ---- C21 ---------------------------------------------------------------
\* what set_imagery_source must leave alone in a tile
Geometry(tr) == [tr EXCEPT !.texture = NoTexture]

\* C21: set_imagery_source(x) leaves the set of cached tiles and the mesh,
\* the elevation and the overlays of every cached tile as they are, and all
\* it does to a tile is to reset its texture; called with the source that
\* is already set (as the second of two calls with the same x is), it
\* changes nothing.
C21_ImagerySourceFrame ==
    [][\A x \in ImagerySource :
          SetImagerySource(x) =>
             /\ DOMAIN img_tiles' = DOMAIN img_tiles
             /\ \A c \in DOMAIN img_tiles :
                   /\ Geometry(img_tiles'[c]) = Geometry(img_tiles[c])
                   /\ img_tiles'[c].texture \in {NoTexture, img_tiles[c].texture}
             /\ m_imagery_source' = x
             /\ (m_imagery_source = x => UNCHANGED vars)]_vars

\* a call has reset the texture of a tile that has overlays
C21_Witness ==
    \E c \in img_stripped :
        /\ c \in DOMAIN img_tiles
        /\ img_tiles[c].texture = NoTexture
        /\ img_tiles[c].overlay_tex_valid


\* ---- C22 ---------------------------------------------------------------
\* the composite was built for the neighbourhood as it is
Composed == comp_ce # NoComposite

\* the extraction has run on the composite
Extracted == Composed /\ comp_result \in ResultKinds

\* the cell of the composite-shaped result under cell (r, c) of the center
CenterCell(r, c) ==
    CompResult(comp_ce, comp_result)[
        (comp_ce.center_row_start + r) * comp_ce.cols
            + comp_ce.center_col_start + c]

\* C22: for a center tile without any resident neighbour the composite is
\* the elevation of the tile, the center is at offset (0, 0) and has the
\* size of the composite; and the extraction copies the cells of the
\* recorded center rectangle, and nothing else, into the tile-shaped
\* output, so that a uniform composite gives the same uniform value.
C22_CompositeRoundTrip ==
    /\ (Composed /\ \A o \in Offsets : comp_cache[o] = "absent") =>
          /\ comp_ce.data = Elevation(<<0, 0>>, "same")
          /\ comp_ce.center_row_start = 0
          /\ comp_ce.center_col_start = 0
          /\ comp_ce.center_rows = comp_ce.rows
          /\ comp_ce.center_cols = comp_ce.cols
    /\ Extracted =>
          /\ DOMAIN comp_tile = 0..(comp_ce.center_rows * comp_ce.center_cols - 1)
          /\ \A r \in 0..(comp_ce.center_rows - 1) :
                \A c \in 0..(comp_ce.center_cols - 1) :
                   comp_tile[r * comp_ce.center_cols + c] = CenterCell(r, c)
          /\ comp_result = "uniform" =>
                \A i \in DOMAIN comp_tile : comp_tile[i] = Uniform

\* the center of a composite of three by three tiles has been extracted
\* from a result whose cells all differ
C22_Witness ==
    /\ Extracted
    /\ comp_result = "index"
    /\ comp_ce.rows = 3 * CompTileRows
    /\ comp_ce.cols = 3 * CompTileCols
    /\ comp_tile[0] = CompTileRows * comp_ce.cols + CompTileCols


\* ---- C23 ---------------------------------------------------------------
\* the neighbours to the north of the center: y + 1 for a degree-keyed
\* center, y - 1 for a slippy-map center
IsNorth(o) == IF comp_z = -1 THEN o[2] = 1 ELSE o[2] = -1
IsSouth(o) == IF comp_z = -1 THEN o[2] = -1 ELSE o[2] = 1
IsWest(o) == o[1] = -1
IsEast(o) == o[1] = 1

\* the first row and the first column of the block of neighbour o
BlockRow(o) ==
    IF IsNorth(o) THEN 0
    ELSE IF IsSouth(o) THEN comp_ce.rows - CompTileRows
    ELSE comp_ce.center_row_start
BlockCol(o) ==
    IF IsWest(o) THEN 0
    ELSE IF IsEast(o) THEN comp_ce.cols - CompTileCols
    ELSE comp_ce.center_col_start

\* the composite holds the neighbours of "counted" in their blocks, the
\* center behind the blocks above and left of it, and its bounds are those
\* of the center extended on the sides where "counted" has a neighbour
PlacementOf(counted) ==
    /\ \A o \in counted :
          \A r \in 0..(CompTileRows - 1) : \A c \in 0..(CompTileCols - 1) :
             comp_ce.data[(BlockRow(o) + r) * comp_ce.cols + BlockCol(o) + c]
                = Elev(o, r, c)
    /\ comp_ce.center_row_start =
          (IF \E o \in counted : IsNorth(o) THEN CompTileRows ELSE 0)
    /\ comp_ce.center_col_start =
          (IF \E o \in counted : IsWest(o) THEN CompTileCols ELSE 0)
    /\ comp_ce.bounds =
          [max_lat |-> CenterBounds.max_lat
                         + (IF \E o \in counted : IsNorth(o) THEN LatSpan ELSE 0),
           min_lat |-> CenterBounds.min_lat
                         - (IF \E o \in counted : IsSouth(o) THEN LatSpan ELSE 0),
           min_lon |-> CenterBounds.min_lon
                         - (IF \E o \in counted : IsWest(o) THEN LonSpan ELSE 0),
           max_lon |-> CenterBounds.max_lon
                         + (IF \E o \in counted : IsEast(o) THEN LonSpan ELSE 0)]

\* C23 as stated: every resident neighbour counts: the neighbour at y + 1 is
\* in the first row block for a degree-keyed center and in the last one for
\* a slippy-map center, the center offset is the height and width of the
\* blocks above and left of it, and the bounds are extended on the sides
\* that have a resident neighbour.
C23_ResidentNeighbourPlacement ==
    Composed => PlacementOf({o \in Offsets : comp_cache[o] # "absent"})

\* C23, amended: the same of the resident neighbours that have the
\* dimensions of the center; a resident neighbour of other dimensions is
\* left out and extends nothing.
C23_MatchingNeighbourPlacement ==
    Composed => PlacementOf({o \in Offsets : comp_cache[o] = "same"})

\* a degree-keyed center with the tile at y + 1 in the first row block and
\* a resident eastern neighbour of other dimensions that is left out
C23_Witness ==
    /\ Composed
    /\ comp_z = -1
    /\ comp_cache[<<0, 1>>] = "same"
    /\ comp_cache[<<1, 0>>] = "other"
    /\ comp_ce.data[0] = Elev(<<0, 1>>, 0, 0)
    /\ comp_ce.cols = CompTileCols


\* ---- C24 ---------------------------------------------------------------
\* C24: latlon_to_dsm_coord(lat, lon) is the TileCoord with z = -2,
\* x = floor(lon * 100) and y = floor(lat * 100), and dsm_tile_bounds of it
\* is the cell of 0.01 degree that holds (lat, lon).
C24_DsmCoord ==
    dsm_coord # NoDsmCoord =>
        /\ dsm_coord = [z |-> -2, x |-> floor_times_100(dsm_lon),
                        y |-> floor_times_100(dsm_lat)]
        /\ dsm_bounds.max_lat = dsm_bounds.min_lat + 100
        /\ dsm_bounds.max_lon = dsm_bounds.min_lon + 100
        /\ dsm_bounds.min_lat <= dsm_lat /\ dsm_lat < dsm_bounds.max_lat
        /\ dsm_bounds.min_lon <= dsm_lon /\ dsm_lon < dsm_bounds.max_lon


\* ---- C25 ---------------------------------------------------------------
\* C25: a write is atomic for a reader on another thread: a reader that saw
\* has(key) = true reads all the bytes of a finished write, never an empty
\* or a partly written file.
C25_AtomicWrite ==
    dr_data.done => (dr_data.len = FileLen /\ dr_data.read = FileLen)

=============================================================================
